---- MODULE Spec2Model ----
(***************************************************************************)
(* Organization management service: the create / update / delete          *)
(* protocols of OrganizationService, the login and token validation of    *)
(* AuthService, and the HTTP status mapping of the routes, over a         *)
(* MongoDB-like store (master collections `organizations` and             *)
(* `admin_users` with their unique indexes, and the per-tenant            *)
(* collections).  Every store call is one atomic step; requests run as    *)
(* independent tasks whose store calls interleave freely.                  *)
(***************************************************************************)
EXTENDS Naturals, FiniteSets, Sequences, TLC

(***************************************************************************)
(* Bounds of the model.                                                    *)
(***************************************************************************)
\* Requests started in one behaviour: of concurrent tasks (Spec), and of one
\* task that runs its requests one after the other (SpecSeq).
MaxOps == 2
MaxSeqOps == 3
\* Requests started in one behaviour of the authenticated routes (SpecAuth).
MaxAuthOps == 3
MaxFaultOps == 3
MaxChurnOps == 2
\* The last instant of the clock (SpecToken).
MaxNow == 5

\* The request tasks that may be in flight together.
Procs == {"t1", "t2"}

\* Request-body organization names (before validation), query-string
\* organization names, emails and passwords the requests draw from.
BodyNames == {"acme", "Beta"}
BadBodyNames == {"1bad"}
\* More request-body names, for the requests of one task (SpecSeq).
MoreBodyNames == {"_bad", "my org", "my-org", "ab", "a_1"}
QueryNames == {"ACME", "beta"}
Emails == {"a@x.com", "b@x.com"}
CreatePasswords == {"Secret123"}
UpdatePasswords == {"Other4567"}
Passwords == CreatePasswords \cup UpdatePasswords

(***************************************************************************)
(* Values standing for Python's None.                                      *)
(***************************************************************************)
NoId == 0
NoStr == ""
NoOrg == [_id |-> NoId]
NoAdmin == [_id |-> NoId]
\* The None of Optional[TokenData].
NoTokenData ==
    [admin_id |-> NoId, email |-> NoStr, organization_id |-> NoId,
     organization_name |-> NoStr]

(***************************************************************************)
(* Strings.  str.lower() and str.replace(' ', '_') over the strings of     *)
(* the model, by table.                                                    *)
(***************************************************************************)
Lower(s) ==
    CASE s = "ACME" -> "acme"
      [] s = "Acme" -> "acme"
      [] s = "Beta" -> "beta"
      [] s = "BETA" -> "beta"
      [] OTHER -> s

ReplaceSpaces(s) ==
    CASE s = "my org" -> "my_org"
      [] OTHER -> s

\* The characters of the names of the model.
Chars(v) ==
    CASE v = "acme" -> <<"a", "c", "m", "e">>
      [] v = "ACME" -> <<"A", "C", "M", "E">>
      [] v = "Acme" -> <<"A", "c", "m", "e">>
      [] v = "beta" -> <<"b", "e", "t", "a">>
      [] v = "Beta" -> <<"B", "e", "t", "a">>
      [] v = "BETA" -> <<"B", "E", "T", "A">>
      [] v = "1bad" -> <<"1", "b", "a", "d">>
      [] v = "_bad" -> <<"_", "b", "a", "d">>
      [] v = "my org" -> <<"m", "y", " ", "o", "r", "g">>
      [] v = "my-org" -> <<"m", "y", "-", "o", "r", "g">>
      [] v = "ab" -> <<"a", "b">>
      [] v = "a_1" -> <<"a", "_", "1">>
      [] v = "gamma" -> <<"g", "a", "m", "m", "a">>
      [] v = "unauthorized_org" ->
             <<"u", "n", "a", "u", "t", "h", "o", "r", "i", "z", "e", "d",
               "_", "o", "r", "g">>
      [] OTHER -> <<>>

Letters ==
    {"a", "b", "c", "d", "e", "f", "g", "h", "i", "j", "k", "l", "m", "n", "o",
     "p", "q", "r", "s", "t", "u", "v", "w", "x", "y", "z",
     "A", "B", "C", "D", "E", "F", "G", "H", "I", "J", "K", "L", "M", "N", "O",
     "P", "Q", "R", "S", "T", "U", "V", "W", "X", "Y", "Z"}
Digits == {"0", "1", "2", "3", "4", "5", "6", "7", "8", "9"}

\* Faulty variant: min_length is not enforced.
NameIsValid_AnyLength(v) ==
    LET cs == Chars(v)
    IN /\ Len(cs) >= 1
       /\ cs[1] \in Letters
       /\ \A i \in 1..Len(cs) : cs[i] \in Letters \cup Digits \cup {"_"}

\* Field(min_length=3, max_length=50) together with
\* re.match(r'^[a-zA-Z][a-zA-Z0-9_]*$', v).
NameIsValid(v) ==
    LET cs == Chars(v)
    IN /\ Len(cs) >= 3 /\ Len(cs) <= 50
       /\ cs[1] \in Letters
       /\ \A i \in 1..Len(cs) : cs[i] \in Letters \cup Digits \cup {"_"}

\* OrganizationCreate / OrganizationUpdate.validate_organization_name:
\* the validated value is the lower-cased name.
validate_organization_name(v) == Lower(v)

\* Faulty variant: the prefix is left out.
_generate_collection_name_NoPrefix(org_name) == ReplaceSpaces(Lower(org_name))

_generate_collection_name(org_name) == "org_" \o ReplaceSpaces(Lower(org_name))

(***************************************************************************)
(* Passwords: bcrypt hash and verify.                                      *)
(***************************************************************************)
get_password_hash(password) == <<"bcrypt", password>>

verify_password(plain_password, hashed_password) ==
    hashed_password = get_password_hash(plain_password)

(***************************************************************************)
(* Tokens.  A token is the signed payload: the claims put in by login and  *)
(* the expiry, with the HS256 signature under settings.secret_key.         *)
(* NoHeader is a request without Authorization header, BadToken one whose  *)
(* token is not a JWT at all.  Time is counted in token lifetimes' units.  *)
(***************************************************************************)
NoHeader == [kind |-> "none"]
BadToken == [kind |-> "bad"]

\* settings.access_token_expire_minutes, in the time unit of the model.
access_token_expire == 3

\* The HS256 signature of a payload under a key.
Sign(key, sub, email, organization_id, organization_name, exp) ==
    <<"HS256", key, sub, email, organization_id, organization_name, exp>>

\* create_access_token(data, expires_delta) called at time utcnow:
\* `if expires_delta:` takes the default for None and for a zero delta.
create_access_token(data, expires_delta, utcnow) ==
    LET expire == IF expires_delta # 0 THEN utcnow + expires_delta
                  ELSE utcnow + access_token_expire
    IN [kind |-> "jwt", sub |-> data.sub, email |-> data.email,
        organization_id |-> data.organization_id,
        organization_name |-> data.organization_name,
        exp |-> expire,
        sig |-> Sign("secret_key", data.sub, data.email, data.organization_id,
                     data.organization_name, expire)]

\* The result of a decode_token that raises (JWTError -> HTTPException 401).
InvalidToken ==
    [ok |-> FALSE, sub |-> NoId, email |-> NoStr,
     organization_id |-> NoId, organization_name |-> NoStr, exp |-> 0]

\* Faulty variant: the signature is not verified.
decode_token_NoSignature(token, utcnow) ==
    IF token.kind # "jwt" THEN InvalidToken
    ELSE IF token.exp < utcnow THEN InvalidToken
    ELSE [ok |-> TRUE, sub |-> token.sub, email |-> token.email,
          organization_id |-> token.organization_id,
          organization_name |-> token.organization_name, exp |-> token.exp]

\* decode_token(token) called at time utcnow: jwt.decode verifies the
\* signature, then the expiry (the token is refused once exp < now).
decode_token(token, utcnow) ==
    IF token.kind # "jwt" THEN InvalidToken
    ELSE IF token.sig # Sign("secret_key", token.sub, token.email,
                             token.organization_id, token.organization_name,
                             token.exp)
    THEN InvalidToken
    ELSE IF token.exp < utcnow THEN InvalidToken
    ELSE [ok |-> TRUE, sub |-> token.sub, email |-> token.email,
          organization_id |-> token.organization_id,
          organization_name |-> token.organization_name, exp |-> token.exp]

(***************************************************************************)
(* State.                                                                  *)
(***************************************************************************)
VARIABLES
    organizations,   \* master collection `organizations`: a set of documents
    admin_users,     \* master collection `admin_users`: a set of documents
    collections,     \* the tenant collections of the master database
    nextId,          \* the next ObjectId the store generates
    tokens,          \* tokens issued by login so far
    task,            \* per request task: its request, locals, position, result
    budget,          \* number of requests that may still start
    snap,            \* the store when the last request started, if it started alone
    gone,            \* emails of the admins whose organization a Delete has removed
    now,             \* the clock (datetime.utcnow)
    jwt              \* the token under test: its claims, the token, the last decode

store == <<organizations, admin_users, collections, nextId>>
vars == <<organizations, admin_users, collections, nextId, tokens, task, budget, snap, gone, now, jwt>>


(***************************************************************************)
(* Store primitives (motor / MongoDB).                                     *)
(***************************************************************************)
\* db.organizations.find_one({"name": name})
find_org_by_name(name) ==
    IF \E o \in organizations : o.name = name
    THEN CHOOSE o \in organizations : o.name = name
    ELSE NoOrg

\* db.organizations.find_one({"_id": id})
find_org_by_id(id) ==
    IF \E o \in organizations : o._id = id
    THEN CHOOSE o \in organizations : o._id = id
    ELSE NoOrg

\* Faulty variant: the lookup by email never finds a document.
find_admin_by_email_Blind(email) == NoAdmin

\* db.admin_users.find_one({"email": email})
find_admin_by_email(email) ==
    IF \E a \in admin_users : a.email = email
    THEN CHOOSE a \in admin_users : a.email = email
    ELSE NoAdmin

\* db.admin_users.find_one({"_id": ObjectId(admin_id)})
find_admin_by_id(id) ==
    IF \E a \in admin_users : a._id = id
    THEN CHOOSE a \in admin_users : a._id = id
    ELSE NoAdmin

\* Faulty variant: the acting admin is not excluded from the lookup.
find_admin_by_email_except_IncludesSelf(email, id) ==
    IF \E a \in admin_users : a.email = email
    THEN CHOOSE a \in admin_users : a.email = email
    ELSE NoAdmin

\* db.admin_users.find_one({"email": email, "_id": {"$ne": ObjectId(admin_id)}})
find_admin_by_email_except(email, id) ==
    IF \E a \in admin_users : a.email = email /\ a._id # id
    THEN CHOOSE a \in admin_users : a.email = email /\ a._id # id
    ELSE NoAdmin

\* Faulty variant: the unique indexes of `organizations` were never created.
OrgIndexesAccept_NoIndex(doc, others) == TRUE

\* The unique indexes of `organizations` (name, collection_name): whether
\* the store accepts `doc` beside the documents `others`.
OrgIndexesAccept(doc, others) ==
    \A o \in others : o.name # doc.name /\ o.collection_name # doc.collection_name

\* Faulty variant: the unique index of `admin_users` was never created.
AdminIndexAccepts_NoIndex(doc, others) == TRUE

\* The unique index of `admin_users` (email).
AdminIndexAccepts(doc, others) ==
    \A a \in others : a.email # doc.email

CollectionExists(name) == \E c \in collections : c.name = name

(***************************************************************************)
(* HTTP status of a ValueError raised by the service, as the routes map    *)
(* it from the text of the message.                                        *)
(***************************************************************************)
\* Whether the lower-cased text of a name or email put into a message
\* contains the needle (`needle in text`), for the texts of the model.
ArgContains(arg, needle) ==
    /\ needle = "unauthorized"
    /\ arg \in {"unauthorized_org", "unauthorized@x.com"}

\* Whether the lower-cased message of the error contains the needle.
MsgContains(err, needle) ==
    \/ err.kind = "not_found" /\ needle = "not found"
    \/ err.kind = "unauthorized" /\ needle = "unauthorized"
    \/ ArgContains(Lower(err.arg), needle)

ErrNotFound(org_name) == [kind |-> "not_found", arg |-> org_name]
ErrUnauthorized == [kind |-> "unauthorized", arg |-> NoStr]
ErrOrgExists(org_name) == [kind |-> "already_exists", arg |-> org_name]
ErrEmailInUse(email) == [kind |-> "email_in_use", arg |-> email]
\* pymongo.errors.OperationFailure of Collection.rename
ErrRename == [kind |-> "rename_failed", arg |-> NoStr]

\* routes/organization.py create_organization: every ValueError is 409.
CreateStatus(err) == 409

\* routes/organization.py update_organization
UpdateStatus(err) ==
    IF MsgContains(err, "not found") THEN 404
    ELSE IF MsgContains(err, "unauthorized") THEN 403
    ELSE 409

\* Faulty variant: the "not found" branch is missing.
DeleteStatus_NoNotFound(err) ==
    IF MsgContains(err, "unauthorized") THEN 403 ELSE 400

\* routes/organization.py delete_organization
DeleteStatus(err) ==
    IF MsgContains(err, "not found") THEN 404
    ELSE IF MsgContains(err, "unauthorized") THEN 403
    ELSE 400

\* routes/organization.py get_organization: GET /org/get?organization_name=
GetStatus(organization_name) ==
    IF find_org_by_name(Lower(organization_name)) = NoOrg THEN 404 ELSE 200

(***************************************************************************)
(* Request tasks.                                                          *)
(***************************************************************************)
Idle ==
    [op |-> "none", pc |-> "idle",
     organization_name |-> NoStr,   \* body: organization_name (validated)
     org_name |-> NoStr,            \* query: current_org_name / organization_name
     email |-> NoStr, password |-> NoStr, token |-> NoHeader,
     admin_id |-> NoId,             \* the principal's admin_id
     principal |-> NoTokenData,     \* current_admin
     err |-> "none",                \* kind of the error the service raised
     org |-> NoOrg,                 \* existing_org / current_org / organization
     admin |-> NoAdmin,             \* existing_admin / admin
     existing |-> NoId,             \* _id of `existing` / `existing_email`
     org_id |-> NoId,               \* org_result.inserted_id
     new_admin_id |-> NoId,         \* admin_result.inserted_id
     status |-> 0,                  \* HTTP status of the response
     data |-> NoStr,                \* collection_name in the response
     wrote |-> FALSE]               \* a store write has been issued

InFlight(p) == task[p].pc \notin {"idle", "done"}

NoSnap == [owner |-> "none"]

\* The store as a request that starts alone finds it.
SnapAt(p) ==
    IF \A q \in Procs \ {p} : ~InFlight(q)
    THEN [owner |-> p, organizations |-> organizations,
          admin_users |-> admin_users, collections |-> collections]
    ELSE NoSnap

\* No response is waiting to be delivered.
Quiet == \A q \in Procs : task[q].pc # "done"

Begin(p, rec) ==
    /\ ~InFlight(p)
    /\ budget > 0
    /\ budget' = budget - 1
    /\ snap' = SnapAt(p)
    /\ task' = [task EXCEPT ![p] = rec]
    /\ UNCHANGED <<organizations, admin_users, collections, nextId, tokens, gone, now, jwt>>

Step(p, rec) == task' = [task EXCEPT ![p] = rec]

Respond(rec, status) == [rec EXCEPT !.pc = "done", !.status = status]

Goto(rec, pc) == [rec EXCEPT !.pc = pc]

\* The service raised ValueError `err`; the route answers with `status`.
Raise(rec, err, status) ==
    [rec EXCEPT !.pc = "done", !.status = status, !.err = err.kind]

Wrote(rec) == [rec EXCEPT !.wrote = TRUE]

(***************************************************************************)
(* POST /org/create: OrganizationService.create_organization               *)
(***************************************************************************)
StartCreateWith(p, names) ==
    \E raw \in names, email \in Emails, password \in CreatePasswords :
        Begin(p, IF NameIsValid(raw)
                 THEN [Idle EXCEPT !.op = "create", !.pc = "c_find_org",
                                   !.organization_name = validate_organization_name(raw),
                                   !.email = email, !.password = password]
                 ELSE Respond([Idle EXCEPT !.op = "create",
                                           !.organization_name = raw], 422))

StartCreate(p) == StartCreateWith(p, BodyNames \cup BadBodyNames)

\* existing_org = find_one({"name": ...}); raise ValueError if found
CreateFindOrg(p) ==
    /\ task[p].pc = "c_find_org"
    /\ LET t == task[p]
           existing_org == find_org_by_name(t.organization_name)
       IN Step(p, IF existing_org # NoOrg
                  THEN Raise([t EXCEPT !.org = existing_org],
                               ErrOrgExists(t.organization_name),
                               CreateStatus(ErrOrgExists(t.organization_name)))
                  ELSE Goto(t, "c_find_admin"))
    /\ UNCHANGED <<organizations, admin_users, collections, nextId, tokens, budget, snap, gone, now, jwt>>

\* existing_admin = find_one({"email": ...}); raise ValueError if found
CreateFindAdmin(p) ==
    /\ task[p].pc = "c_find_admin"
    /\ LET t == task[p]
           existing_admin == find_admin_by_email(t.email)
       IN Step(p, IF existing_admin # NoAdmin
                  THEN Raise([t EXCEPT !.admin = existing_admin],
                               ErrEmailInUse(t.email),
                               CreateStatus(ErrEmailInUse(t.email)))
                  ELSE Goto(t, "c_insert_org"))
    /\ UNCHANGED <<organizations, admin_users, collections, nextId, tokens, budget, snap, gone, now, jwt>>

\* Faulty variant: the tenant collection is provisioned together with the
\* insert of the organization record.
CreateInsertOrg_ProvisionsFirst(p) ==
    /\ task[p].pc = "c_insert_org"
    /\ LET t == task[p]
           organization_doc ==
               [_id |-> nextId, name |-> t.organization_name,
                collection_name |-> _generate_collection_name(t.organization_name),
                updated_at |-> FALSE, is_active |-> TRUE,
                admin_id |-> NoId, admin_email |-> NoStr]
       IN IF OrgIndexesAccept(organization_doc, organizations)
          THEN /\ organizations' = organizations \cup {organization_doc}
               /\ collections' = collections \cup
                      {[name |-> organization_doc.collection_name, docs |-> 0,
                        by |-> nextId]}
               /\ nextId' = nextId + 1
               /\ Step(p, Goto(Wrote([t EXCEPT !.org_id = nextId]), "c_insert_admin"))
          ELSE /\ Step(p, Respond(Wrote(t), 500))
               /\ UNCHANGED <<organizations, collections, nextId>>
    /\ UNCHANGED <<admin_users, tokens, budget, snap, gone, now, jwt>>

\* org_result = await db.organizations.insert_one(organization_doc)
CreateInsertOrg(p) ==
    /\ task[p].pc = "c_insert_org"
    /\ LET t == task[p]
           organization_doc ==
               [_id |-> nextId, name |-> t.organization_name,
                collection_name |-> _generate_collection_name(t.organization_name),
                updated_at |-> FALSE, is_active |-> TRUE,
                admin_id |-> NoId, admin_email |-> NoStr]
       IN IF OrgIndexesAccept(organization_doc, organizations)
          THEN /\ organizations' = organizations \cup {organization_doc}
               /\ nextId' = nextId + 1
               /\ Step(p, Goto(Wrote([t EXCEPT !.org_id = nextId]), "c_insert_admin"))
          ELSE /\ Step(p, Respond(Wrote(t), 500))   \* DuplicateKeyError
               /\ UNCHANGED <<organizations, nextId>>
    /\ UNCHANGED <<admin_users, collections, tokens, budget, snap, gone, now, jwt>>

\* Faulty variant: the admin document is upserted by email, so an admin
\* record that holds the email by now is taken over by the new organization.
CreateInsertAdmin_UpsertsByEmail(p) ==
    /\ task[p].pc = "c_insert_admin"
    /\ LET t == task[p]
           held == find_admin_by_email(t.email)
           admin_doc ==
               [_id |-> IF held = NoAdmin THEN nextId ELSE held._id,
                email |-> t.email,
                password_hash |-> get_password_hash(t.password),
                organization_id |-> t.org_id,
                organization_name |-> t.organization_name,
                role |-> "admin", is_active |-> TRUE]
       IN /\ admin_users' = (admin_users \ {held}) \cup {admin_doc}
          /\ nextId' = nextId + 1
          /\ Step(p, Goto([t EXCEPT !.new_admin_id = admin_doc._id], "c_patch_org"))
    /\ UNCHANGED <<organizations, collections, tokens, budget, snap, gone, now, jwt>>

\* admin_result = await db.admin_users.insert_one(admin_doc)
CreateInsertAdmin(p) ==
    /\ task[p].pc = "c_insert_admin"
    /\ LET t == task[p]
           admin_doc ==
               [_id |-> nextId, email |-> t.email,
                password_hash |-> get_password_hash(t.password),
                organization_id |-> t.org_id,
                organization_name |-> t.organization_name,
                role |-> "admin", is_active |-> TRUE]
       IN IF AdminIndexAccepts(admin_doc, admin_users)
          THEN /\ admin_users' = admin_users \cup {admin_doc}
               /\ nextId' = nextId + 1
               /\ Step(p, Goto([t EXCEPT !.new_admin_id = nextId], "c_patch_org"))
          ELSE /\ Step(p, Respond(t, 500))          \* DuplicateKeyError
               /\ UNCHANGED <<admin_users, nextId>>
    /\ UNCHANGED <<organizations, collections, tokens, budget, snap, gone, now, jwt>>

\* update_one({"_id": org_id}, {"$set": {"admin_id": ..., "admin_email": ...}})
CreatePatchOrg(p) ==
    /\ task[p].pc = "c_patch_org"
    /\ LET t == task[p]
       IN /\ organizations' =
                 {IF o._id = t.org_id
                  THEN [o EXCEPT !.admin_id = t.new_admin_id, !.admin_email = t.email]
                  ELSE o : o \in organizations}
          /\ Step(p, Goto(t, "c_create_collection"))
    /\ UNCHANGED <<admin_users, collections, nextId, tokens, budget, snap, gone, now, jwt>>

\* DatabaseManager.create_organization_collection: db.create_collection
CreateCollection(p) ==
    /\ task[p].pc = "c_create_collection"
    /\ LET t == task[p]
           collection_name == _generate_collection_name(t.organization_name)
       IN IF CollectionExists(collection_name)
          THEN /\ Step(p, Respond(t, 500))          \* CollectionInvalid
               /\ UNCHANGED collections
          ELSE /\ collections' = collections \cup
                      {[name |-> collection_name, docs |-> 0, by |-> t.org_id]}
               /\ Step(p, Goto(t, "c_insert_marker"))
    /\ UNCHANGED <<organizations, admin_users, nextId, tokens, budget, snap, gone, now, jwt>>

\* collection.insert_one(schema document): creates the collection when it
\* is missing.
CreateInsertMarker(p) ==
    /\ task[p].pc = "c_insert_marker"
    /\ LET t == task[p]
           collection_name == _generate_collection_name(t.organization_name)
       IN /\ collections' =
                 IF CollectionExists(collection_name)
                 THEN {IF c.name = collection_name
                       THEN [c EXCEPT !.docs = @ + 1] ELSE c : c \in collections}
                 ELSE collections \cup
                      {[name |-> collection_name, docs |-> 1, by |-> t.org_id]}
          /\ Step(p, Goto(t, "c_create_index"))
    /\ UNCHANGED <<organizations, admin_users, nextId, tokens, budget, snap, gone, now, jwt>>

\* collection.create_index("_type"); collection.create_index("created_at"):
\* either creates the collection when it is missing.  Then the 201 response.
CreateIndexes(p) ==
    /\ task[p].pc = "c_create_index"
    /\ LET t == task[p]
           collection_name == _generate_collection_name(t.organization_name)
       IN /\ collections' =
                 IF CollectionExists(collection_name)
                 THEN collections
                 ELSE collections \cup
                      {[name |-> collection_name, docs |-> 0, by |-> t.org_id]}
          /\ Step(p, Respond([t EXCEPT !.data = collection_name], 201))
    /\ UNCHANGED <<organizations, admin_users, nextId, tokens, budget, snap, gone, now, jwt>>

(***************************************************************************)
(* Authenticated routes: dependencies.get_current_admin and                *)
(* AuthService.validate_token.                                             *)
(***************************************************************************)
\* Faulty variant: the admin of the token is not looked up again.
validate_token_NoRecheck(token) ==
    LET payload == decode_token(token, now)
    IN IF ~payload.ok \/ payload.sub = NoId THEN NoTokenData
       ELSE [admin_id |-> payload.sub, email |-> payload.email,
             organization_id |-> payload.organization_id,
             organization_name |-> payload.organization_name]

\* validate_token: the principal (TokenData) built from the claims of the
\* token, or NoTokenData when the token does not decode or its admin does
\* not exist or is inactive.
validate_token(token) ==
    LET payload == decode_token(token, now)
        admin == find_admin_by_id(payload.sub)
    IN IF ~payload.ok \/ payload.sub = NoId THEN NoTokenData
       ELSE IF admin = NoAdmin \/ ~admin.is_active THEN NoTokenData
       ELSE [admin_id |-> payload.sub, email |-> payload.email,
             organization_id |-> payload.organization_id,
             organization_name |-> payload.organization_name]

\* Faulty variant: a request without header is treated as one with a bad
\* token.
Authenticate_HeaderOptional(p) ==
    /\ task[p].pc = "auth"
    /\ LET t == task[p]
           token_data == validate_token(t.token)
           u == [t EXCEPT !.admin_id = token_data.admin_id, !.principal = token_data]
       IN Step(p, IF token_data = NoTokenData THEN Respond(t, 401)
                  ELSE IF t.op = "update"
                       THEN [u EXCEPT !.pc = "u_find_org",
                               !.organization_name = validate_organization_name(@)]
                  ELSE IF t.op = "delete" THEN Goto(u, "d_find_org")
                  ELSE Respond(u, 200))
    /\ UNCHANGED <<organizations, admin_users, collections, nextId, tokens, budget, snap, gone, now, jwt>>

\* HTTPBearer() rejects a request without header with 403; a token that
\* does not validate gives 401; otherwise the route body runs with the
\* principal: the orchestrator for Update and Delete, the response itself
\* for /admin/me and /admin/verify-token.
Authenticate(p) ==
    /\ task[p].pc = "auth"
    /\ LET t == task[p]
           token_data == validate_token(t.token)
           u == [t EXCEPT !.admin_id = token_data.admin_id, !.principal = token_data]
       IN Step(p, IF t.token = NoHeader THEN Respond(t, 403)
                  ELSE IF token_data = NoTokenData THEN Respond(t, 401)
                  ELSE IF t.op = "update"
                       THEN [u EXCEPT !.pc = "u_find_org",
                               !.organization_name = validate_organization_name(@)]
                  ELSE IF t.op = "delete" THEN Goto(u, "d_find_org")
                  ELSE Respond(u, 200))
    /\ UNCHANGED <<organizations, admin_users, collections, nextId, tokens, budget, snap, gone, now, jwt>>

(***************************************************************************)
(* PUT /org/update: OrganizationService.update_organization                *)
(***************************************************************************)
\* The request bodies are those that pass the schema validation.  A request
\* without a usable token is answered before its parameters are looked at:
\* one such request stands for all of them.
StartUpdateWith(p, names, emails, passwords) ==
    \/ \E current_org_name \in QueryNames, raw \in names,
          email \in emails, password \in passwords,
          token \in tokens :
           Begin(p, [Idle EXCEPT !.op = "update", !.pc = "auth",
                                 !.org_name = current_org_name,
                                 !.organization_name = raw,
                                 !.email = email, !.password = password,
                                 !.token = token])
    \/ \E token \in {NoHeader, BadToken} :
           Begin(p, [Idle EXCEPT !.op = "update", !.pc = "auth",
                                 !.org_name = "ACME", !.organization_name = "acme",
                                 !.token = token])

StartUpdate(p) ==
    StartUpdateWith(p, BodyNames, Emails \cup {NoStr}, UpdatePasswords \cup {NoStr})

\* Whether the update changes the name: the case-insensitive comparison.
NameChanges(t) == Lower(t.organization_name) # Lower(t.org_name)

\* Faulty variant: the collection is never renamed.
CollectionChanges_Never(t) == FALSE

\* old_collection_name != new_collection_name
CollectionChanges(t) ==
    t.org.collection_name # _generate_collection_name(t.organization_name)

\* current_org = find_one({"name": current_org_name.lower()})
UpdateFindOrg(p) ==
    /\ task[p].pc = "u_find_org"
    /\ LET t == task[p]
           current_org == find_org_by_name(Lower(t.org_name))
       IN Step(p, IF current_org = NoOrg
                  THEN Raise(t, ErrNotFound(t.org_name), UpdateStatus(ErrNotFound(t.org_name)))
                  ELSE [t EXCEPT !.org = current_org, !.pc = "u_find_admin"])
    /\ UNCHANGED <<organizations, admin_users, collections, nextId, tokens, budget, snap, gone, now, jwt>>

\* Faulty variant: the check only asks that the admin exists.
AdminBelongs_AnyAdmin(admin, org) == admin # NoAdmin

\* Faulty variant: an organization whose admin is gone is open to any admin.
AdminBelongs_Unowned(admin, org) ==
    /\ admin # NoAdmin
    /\ \/ admin.organization_id = org._id
       \/ \A a \in admin_users : a._id # org.admin_id

\* The authorization check of update_organization and delete_organization:
\* not admin or str(admin["organization_id"]) != str(org["_id"])
AdminBelongs(admin, org) ==
    admin # NoAdmin /\ admin.organization_id = org._id

\* Faulty variant: the check also compares the token's organization_name
\* claim with the name of the organization found.
UpdateFindAdmin_ByClaims(p) ==
    /\ task[p].pc = "u_find_admin"
    /\ LET t == task[p]
           admin == find_admin_by_id(t.admin_id)
           u == [t EXCEPT !.admin = admin]
       IN Step(p, IF ~AdminBelongs(admin, t.org)
                     \/ t.principal.organization_name # t.org.name
                  THEN Raise(u, ErrUnauthorized, UpdateStatus(ErrUnauthorized))
                  ELSE IF NameChanges(t) THEN Goto(u, "u_find_existing")
                  ELSE IF CollectionChanges(t) THEN Goto(u, "u_rename")
                  ELSE Goto(u, "u_patch_org"))
    /\ UNCHANGED <<organizations, admin_users, collections, nextId, tokens, budget, snap, gone, now, jwt>>

\* admin = find_one({"_id": ObjectId(admin_id)}); the authorization check
UpdateFindAdmin(p) ==
    /\ task[p].pc = "u_find_admin"
    /\ LET t == task[p]
           admin == find_admin_by_id(t.admin_id)
           u == [t EXCEPT !.admin = admin]
       IN Step(p, IF ~AdminBelongs(admin, t.org)
                  THEN Raise(u, ErrUnauthorized, UpdateStatus(ErrUnauthorized))
                  ELSE IF NameChanges(t) THEN Goto(u, "u_find_existing")
                  ELSE IF CollectionChanges(t) THEN Goto(u, "u_rename")
                  ELSE Goto(u, "u_patch_org"))
    /\ UNCHANGED <<organizations, admin_users, collections, nextId, tokens, budget, snap, gone, now, jwt>>

\* existing = find_one({"name": data.organization_name.lower()})
UpdateFindExisting(p) ==
    /\ task[p].pc = "u_find_existing"
    /\ LET t == task[p]
           existing == find_org_by_name(Lower(t.organization_name))
       IN Step(p, IF existing # NoOrg
                  THEN Raise([t EXCEPT !.existing = existing._id],
                               ErrOrgExists(t.organization_name),
                               UpdateStatus(ErrOrgExists(t.organization_name)))
                  ELSE IF CollectionChanges(t) THEN Goto(t, "u_rename")
                  ELSE Goto(t, "u_patch_org"))
    /\ UNCHANGED <<organizations, admin_users, collections, nextId, tokens, budget, snap, gone, now, jwt>>

\* Faulty variant: the rename replaces a collection that has the new name.
UpdateRename_DropsTarget(p) ==
    /\ task[p].pc = "u_rename"
    /\ LET t == task[p]
           old_name == t.org.collection_name
           new_name == _generate_collection_name(t.organization_name)
       IN IF CollectionExists(old_name)
          THEN /\ collections' =
                      {IF c.name = old_name THEN [c EXCEPT !.name = new_name] ELSE c
                         : c \in {d \in collections : d.name # new_name}}
               /\ Step(p, Goto(Wrote(t), "u_patch_org"))
          ELSE /\ Step(p, Raise(Wrote(t), ErrRename, 500))
               /\ UNCHANGED collections
    /\ UNCHANGED <<organizations, admin_users, nextId, tokens, budget, snap, gone, now, jwt>>

\* Faulty variant: a rename that fails is tried again.
UpdateRename_Retries(p) ==
    /\ task[p].pc = "u_rename"
    /\ LET t == task[p]
           old_name == t.org.collection_name
           new_name == _generate_collection_name(t.organization_name)
       IN IF CollectionExists(old_name) /\ ~CollectionExists(new_name)
          THEN /\ collections' =
                      {IF c.name = old_name THEN [c EXCEPT !.name = new_name] ELSE c
                         : c \in collections}
               /\ Step(p, Goto(Wrote(t), "u_patch_org"))
          ELSE /\ Step(p, t)
               /\ UNCHANGED collections
    /\ UNCHANGED <<organizations, admin_users, nextId, tokens, budget, snap, gone, now, jwt>>

\* DatabaseManager.rename_collection: db[old_name].rename(new_name) fails
\* when the source is missing or the target exists.
UpdateRename(p) ==
    /\ task[p].pc = "u_rename"
    /\ LET t == task[p]
           old_name == t.org.collection_name
           new_name == _generate_collection_name(t.organization_name)
       IN IF CollectionExists(old_name) /\ ~CollectionExists(new_name)
          THEN /\ collections' =
                      {IF c.name = old_name THEN [c EXCEPT !.name = new_name] ELSE c
                         : c \in collections}
               /\ Step(p, Goto(Wrote(t), "u_patch_org"))
          ELSE /\ Step(p, Raise(Wrote(t), ErrRename, 500))   \* OperationFailure
               /\ UNCHANGED collections
    /\ UNCHANGED <<organizations, admin_users, nextId, tokens, budget, snap, gone, now, jwt>>

\* Faulty variant: the patch carries the name without the collection_name.
UpdatePatchOrg_NameOnly(p) ==
    /\ task[p].pc = "u_patch_org"
    /\ LET t == task[p]
           old == find_org_by_id(t.org._id)
           new == [old EXCEPT !.name = t.organization_name, !.updated_at = TRUE]
           next == IF t.email # NoStr THEN "u_find_email" ELSE "u_patch_admin"
       IN IF old = NoOrg
          THEN /\ Step(p, Goto(Wrote(t), next))
               /\ UNCHANGED organizations
          ELSE IF OrgIndexesAccept(new, organizations \ {old})
          THEN /\ organizations' = (organizations \ {old}) \cup {new}
               /\ Step(p, Goto(Wrote(t), next))
          ELSE /\ Step(p, Respond(Wrote(t), 500))
               /\ UNCHANGED organizations
    /\ UNCHANGED <<admin_users, collections, nextId, tokens, budget, snap, gone, now, jwt>>

\* update_one({"_id": current_org["_id"]}, {"$set": update_data})
UpdatePatchOrg(p) ==
    /\ task[p].pc = "u_patch_org"
    /\ LET t == task[p]
           old == find_org_by_id(t.org._id)
           new == IF CollectionChanges(t)
                  THEN [old EXCEPT !.name = t.organization_name, !.updated_at = TRUE,
                          !.collection_name = _generate_collection_name(t.organization_name)]
                  ELSE [old EXCEPT !.name = t.organization_name, !.updated_at = TRUE]
           next == IF t.email # NoStr THEN "u_find_email" ELSE "u_patch_admin"
       IN IF old = NoOrg
          THEN /\ Step(p, Goto(Wrote(t), next))     \* matches nothing
               /\ UNCHANGED organizations
          ELSE IF OrgIndexesAccept(new, organizations \ {old})
          THEN /\ organizations' = (organizations \ {old}) \cup {new}
               /\ Step(p, Goto(Wrote(t), next))
          ELSE /\ Step(p, Respond(Wrote(t), 500))   \* DuplicateKeyError
               /\ UNCHANGED organizations
    /\ UNCHANGED <<admin_users, collections, nextId, tokens, budget, snap, gone, now, jwt>>

\* existing_email = find_one({"email": ..., "_id": {"$ne": ObjectId(admin_id)}})
UpdateFindEmail(p) ==
    /\ task[p].pc = "u_find_email"
    /\ LET t == task[p]
           existing_email == find_admin_by_email_except(t.email, t.admin_id)
       IN Step(p, IF existing_email # NoAdmin
                  THEN Raise([t EXCEPT !.existing = existing_email._id],
                               ErrEmailInUse(t.email),
                               UpdateStatus(ErrEmailInUse(t.email)))
                  ELSE Goto(t, "u_patch_admin"))
    /\ UNCHANGED <<organizations, admin_users, collections, nextId, tokens, budget, snap, gone, now, jwt>>

\* Faulty variant: the password hash is left out of the $set.
UpdatePatchAdmin_KeepsPassword(p) ==
    /\ task[p].pc = "u_patch_admin"
    /\ LET t == task[p]
           old == find_admin_by_id(t.admin_id)
           named == [old EXCEPT !.organization_name = t.organization_name]
           new == IF t.email # NoStr THEN [named EXCEPT !.email = t.email] ELSE named
           next == IF t.email # NoStr THEN "u_patch_email" ELSE "u_refetch"
       IN IF old = NoAdmin
          THEN /\ Step(p, Goto(Wrote(t), next))
               /\ UNCHANGED admin_users
          ELSE IF AdminIndexAccepts(new, admin_users \ {old})
          THEN /\ admin_users' = (admin_users \ {old}) \cup {new}
               /\ Step(p, Goto(Wrote(t), next))
          ELSE /\ Step(p, Respond(Wrote(t), 500))
               /\ UNCHANGED admin_users
    /\ UNCHANGED <<organizations, collections, nextId, tokens, budget, snap, gone, now, jwt>>

\* update_one({"_id": ObjectId(admin_id)}, {"$set": admin_update})
UpdatePatchAdmin(p) ==
    /\ task[p].pc = "u_patch_admin"
    /\ LET t == task[p]
           old == find_admin_by_id(t.admin_id)
           named == [old EXCEPT !.organization_name = t.organization_name]
           mailed == IF t.email # NoStr THEN [named EXCEPT !.email = t.email] ELSE named
           new == IF t.password # NoStr
                  THEN [mailed EXCEPT !.password_hash = get_password_hash(t.password)]
                  ELSE mailed
           next == IF t.email # NoStr THEN "u_patch_email" ELSE "u_refetch"
       IN IF old = NoAdmin
          THEN /\ Step(p, Goto(Wrote(t), next))     \* matches nothing
               /\ UNCHANGED admin_users
          ELSE IF AdminIndexAccepts(new, admin_users \ {old})
          THEN /\ admin_users' = (admin_users \ {old}) \cup {new}
               /\ Step(p, Goto(Wrote(t), next))
          ELSE /\ Step(p, Respond(Wrote(t), 500))   \* DuplicateKeyError
               /\ UNCHANGED admin_users
    /\ UNCHANGED <<organizations, collections, nextId, tokens, budget, snap, gone, now, jwt>>

\* update_one({"_id": current_org["_id"]}, {"$set": {"admin_email": data.email}})
UpdatePatchEmail(p) ==
    /\ task[p].pc = "u_patch_email"
    /\ LET t == task[p]
       IN /\ organizations' =
                 {IF o._id = t.org._id THEN [o EXCEPT !.admin_email = t.email] ELSE o
                    : o \in organizations}
          /\ Step(p, Goto(t, "u_refetch"))
    /\ UNCHANGED <<admin_users, collections, nextId, tokens, budget, snap, gone, now, jwt>>

\* updated_org = find_one({"_id": current_org["_id"]}); the 200 response
\* (subscripting None raises TypeError: 500)
UpdateRefetch(p) ==
    /\ task[p].pc = "u_refetch"
    /\ LET t == task[p]
           updated_org == find_org_by_id(t.org._id)
       IN Step(p, IF updated_org = NoOrg THEN Respond(t, 500)
                  ELSE Respond([t EXCEPT !.data = updated_org.collection_name], 200))
    /\ UNCHANGED <<organizations, admin_users, collections, nextId, tokens, budget, snap, gone, now, jwt>>

(***************************************************************************)
(* DELETE /org/delete: OrganizationService.delete_organization             *)
(***************************************************************************)
StartDelete(p) ==
    \/ \E organization_name \in QueryNames, token \in tokens :
           Begin(p, [Idle EXCEPT !.op = "delete", !.pc = "auth",
                                 !.org_name = organization_name, !.token = token])
    \/ \E token \in {NoHeader, BadToken} :
           Begin(p, [Idle EXCEPT !.op = "delete", !.pc = "auth",
                                 !.org_name = "ACME", !.token = token])

\* organization = find_one({"name": org_name.lower()})
DeleteFindOrg(p) ==
    /\ task[p].pc = "d_find_org"
    /\ LET t == task[p]
           organization == find_org_by_name(Lower(t.org_name))
       IN Step(p, IF organization = NoOrg
                  THEN Raise(t, ErrNotFound(t.org_name), DeleteStatus(ErrNotFound(t.org_name)))
                  ELSE [t EXCEPT !.org = organization, !.pc = "d_find_admin"])
    /\ UNCHANGED <<organizations, admin_users, collections, nextId, tokens, budget, snap, gone, now, jwt>>

\* admin = find_one({"_id": ObjectId(admin_id)}); the authorization check
DeleteFindAdmin(p) ==
    /\ task[p].pc = "d_find_admin"
    /\ LET t == task[p]
           admin == find_admin_by_id(t.admin_id)
           u == [t EXCEPT !.admin = admin]
       IN Step(p, IF ~AdminBelongs(admin, t.org)
                  THEN Raise(u, ErrUnauthorized, DeleteStatus(ErrUnauthorized))
                  ELSE Goto(u, "d_drop_collection"))
    /\ UNCHANGED <<organizations, admin_users, collections, nextId, tokens, budget, snap, gone, now, jwt>>

\* Faulty variant: dropping a missing collection is an error.
DeleteDropCollection_FailsOnMissing(p) ==
    /\ task[p].pc = "d_drop_collection"
    /\ LET t == task[p]
       IN IF CollectionExists(t.org.collection_name)
          THEN /\ collections' = {c \in collections : c.name # t.org.collection_name}
               /\ Step(p, Goto(Wrote(t), "d_delete_admins"))
          ELSE /\ Step(p, Respond(t, 500))
               /\ UNCHANGED collections
    /\ UNCHANGED <<organizations, admin_users, nextId, tokens, budget, snap, gone, now, jwt>>

\* DatabaseManager.delete_organization_collection: db.drop_collection, which
\* does not fail on a missing collection.
DeleteDropCollection(p) ==
    /\ task[p].pc = "d_drop_collection"
    /\ LET t == task[p]
       IN /\ collections' = {c \in collections : c.name # t.org.collection_name}
          /\ Step(p, Goto(Wrote(t), "d_delete_admins"))
    /\ UNCHANGED <<organizations, admin_users, nextId, tokens, budget, snap, gone, now, jwt>>

\* Faulty variant: the admin documents are left in place.
DeleteAdmins_KeepsAdmins(p) ==
    /\ task[p].pc = "d_delete_admins"
    /\ Step(p, Goto(task[p], "d_delete_org"))
    /\ UNCHANGED <<organizations, admin_users, collections, nextId, tokens, budget, snap, gone, now, jwt>>

\* Faulty variant: this step deletes the organization record instead of the
\* admin records.
DeleteAdmins_OrgFirst(p) ==
    /\ task[p].pc = "d_delete_admins"
    /\ LET t == task[p]
       IN /\ organizations' = {o \in organizations : o._id # t.org._id}
          /\ Step(p, Goto(t, "d_delete_org"))
    /\ UNCHANGED <<admin_users, collections, nextId, tokens, budget, snap, gone, now, jwt>>

\* Faulty variant: the organization record goes together with the admins.
DeleteAdmins_WithOrg(p) ==
    /\ task[p].pc = "d_delete_admins"
    /\ LET t == task[p]
       IN /\ admin_users' = {a \in admin_users : a.organization_id # t.org._id}
          /\ organizations' = {o \in organizations : o._id # t.org._id}
          /\ Step(p, Goto(t, "d_delete_org"))
    /\ UNCHANGED <<collections, nextId, tokens, budget, snap, gone, now, jwt>>

\* Faulty variant: delete_many without the organization_id filter.
DeleteAdmins_Unfiltered(p) ==
    /\ task[p].pc = "d_delete_admins"
    /\ LET t == task[p]
       IN /\ admin_users' = {}
          /\ Step(p, Goto(t, "d_delete_org"))
    /\ UNCHANGED <<organizations, collections, nextId, tokens, budget, snap, gone, now, jwt>>

\* db.admin_users.delete_many({"organization_id": organization["_id"]})
DeleteAdmins(p) ==
    /\ task[p].pc = "d_delete_admins"
    /\ LET t == task[p]
       IN /\ admin_users' = {a \in admin_users : a.organization_id # t.org._id}
          /\ Step(p, Goto(t, "d_delete_org"))
    /\ UNCHANGED <<organizations, collections, nextId, tokens, budget, snap, gone, now, jwt>>

\* db.organizations.delete_one({"_id": organization["_id"]}); the 200 response
DeleteOrg(p) ==
    /\ task[p].pc = "d_delete_org"
    /\ LET t == task[p]
       IN /\ organizations' = {o \in organizations : o._id # t.org._id}
          /\ gone' = gone \cup {t.admin.email}
          /\ Step(p, Respond(t, 200))
    /\ UNCHANGED <<admin_users, collections, nextId, tokens, budget, snap, now, jwt>>

(***************************************************************************)
(* A store call of a service that fails: the driver raises (the server is  *)
(* unreachable, the call times out), the service does not catch it and the *)
(* route answers 500 from its `except Exception` clause.  Nothing is       *)
(* written by the failing call and nothing written before is undone.       *)
(***************************************************************************)
StoreCalls ==
    {"c_find_org", "c_find_admin", "c_insert_org", "c_insert_admin", "c_patch_org",
     "c_create_collection", "c_insert_marker", "c_create_index",
     "u_find_org", "u_find_admin", "u_find_existing", "u_rename", "u_patch_org",
     "u_find_email", "u_patch_admin", "u_patch_email", "u_refetch",
     "d_find_org", "d_find_admin", "d_drop_collection", "d_delete_admins",
     "d_delete_org"}

ErrStore == [kind |-> "store_failure", arg |-> NoStr]

\* Faulty variant: a Create that fails takes back the records it inserted.
StoreFault_Compensates(p) ==
    /\ task[p].pc \in StoreCalls
    /\ Step(p, Raise(task[p], ErrStore, 500))
    /\ organizations' = {o \in organizations :
                            task[p].op # "create" \/ o._id # task[p].org_id}
    /\ admin_users' = {a \in admin_users :
                          task[p].op # "create" \/ a._id # task[p].new_admin_id}
    /\ UNCHANGED <<collections, nextId, tokens, budget, snap, gone, now, jwt>>

StoreFault(p) ==
    /\ task[p].pc \in StoreCalls
    /\ Step(p, Raise(task[p], ErrStore, 500))
    /\ UNCHANGED <<organizations, admin_users, collections, nextId, tokens, budget, snap, gone, now, jwt>>

(***************************************************************************)
(* POST /admin/login: AuthService.login                                    *)
(***************************************************************************)
StartLogin(p) ==
    \E email \in Emails, password \in Passwords :
        Begin(p, [Idle EXCEPT !.op = "login", !.pc = "l_find_admin",
                              !.email = email, !.password = password])

\* Faulty variant: the password is not verified.
authenticate_admin_AnyPassword(email, password) ==
    LET admin == find_admin_by_email(email)
    IN IF admin = NoAdmin THEN NoAdmin
       ELSE IF ~admin.is_active THEN NoAdmin
       ELSE admin

\* authenticate_admin: the admin document, or NoAdmin
authenticate_admin(email, password) ==
    LET admin == find_admin_by_email(email)
    IN IF admin = NoAdmin THEN NoAdmin
       ELSE IF ~admin.is_active THEN NoAdmin
       ELSE IF ~verify_password(password, admin.password_hash) THEN NoAdmin
       ELSE admin

\* POST /admin/login as one call: the status AuthService.login and the route give.
LoginStatus(email, password) ==
    LET admin == authenticate_admin(email, password)
    IN IF admin = NoAdmin THEN 401
       ELSE IF find_org_by_id(admin.organization_id) = NoOrg THEN 401
       ELSE 200

\* Faulty variant: the subject of the token is the organization's id.
access_token_for_WrongSubject(admin, organization) ==
    create_access_token(
        [sub |-> admin.organization_id, email |-> admin.email,
         organization_id |-> admin.organization_id,
         organization_name |-> organization.name],
        access_token_expire, now)

\* The token login issues for an authenticated admin and its organization:
\* token_data and security_service.create_access_token.
access_token_for(admin, organization) ==
    create_access_token(
        [sub |-> admin._id, email |-> admin.email,
         organization_id |-> admin.organization_id,
         organization_name |-> organization.name],
        access_token_expire, now)

\* AuthService.login as one call: the token, or NoHeader for None.
login(email, password) ==
    LET admin == authenticate_admin(email, password)
        organization == find_org_by_id(admin.organization_id)
    IN IF admin = NoAdmin THEN NoHeader
       ELSE IF organization = NoOrg THEN NoHeader
       ELSE access_token_for(admin, organization)

LoginAuthenticate(p) ==
    /\ task[p].pc = "l_find_admin"
    /\ LET t == task[p]
           admin == authenticate_admin(t.email, t.password)
       IN Step(p, IF admin = NoAdmin THEN Respond(t, 401)
                  ELSE [t EXCEPT !.admin = admin, !.pc = "l_find_org"])
    /\ UNCHANGED <<organizations, admin_users, collections, nextId, tokens, budget, snap, gone, now, jwt>>

\* organization = find_one({"_id": admin["organization_id"]}); the token
LoginIssue(p) ==
    /\ task[p].pc = "l_find_org"
    /\ LET t == task[p]
           organization == find_org_by_id(t.admin.organization_id)
           access_token == access_token_for(t.admin, organization)
       IN IF organization = NoOrg
          THEN /\ Step(p, Respond(t, 401))
               /\ UNCHANGED tokens
          ELSE /\ tokens' = tokens \cup {access_token}
               /\ Step(p, Respond([t EXCEPT !.token = access_token], 200))
    /\ UNCHANGED <<organizations, admin_users, collections, nextId, budget, snap, gone, now, jwt>>

(***************************************************************************)
(* GET /admin/me and POST /admin/verify-token: the principal that          *)
(* get_current_admin yields is the response.                               *)
(***************************************************************************)
\* An issued token whose expiry was pushed back, under the old signature.
Forged(token) == [token EXCEPT !.exp = @ + 1]

StartMe(p) ==
    \E token \in tokens \cup {NoHeader, BadToken} :
        Begin(p, [Idle EXCEPT !.op = "me", !.pc = "auth", !.token = token])

StartVerify(p) ==
    \E token \in tokens \cup {NoHeader, BadToken} \cup {Forged(t) : t \in tokens} :
        Begin(p, [Idle EXCEPT !.op = "verify", !.pc = "auth", !.token = token])

(***************************************************************************)
(* The response of a finished request is delivered before anything else    *)
(* happens; the task is then free for the next request.                    *)
(***************************************************************************)
Deliver(p) ==
    /\ task[p].pc = "done"
    /\ task' = [task EXCEPT ![p] = Idle]
    /\ snap' = NoSnap
    /\ UNCHANGED <<organizations, admin_users, collections, nextId, tokens, budget, gone, now, jwt>>

(***************************************************************************)
(* The service.  It starts with an empty store, or with the store left by  *)
(* the successful creation of one or two organizations followed by the     *)
(* login of their admins.                                                  *)
(***************************************************************************)
\* No token is under test.
NoJwt == [phase |-> "none"]

SeedOrg(id, name, email) ==
    [_id |-> id, name |-> name, collection_name |-> _generate_collection_name(name),
     updated_at |-> FALSE, is_active |-> TRUE, admin_id |-> id + 1, admin_email |-> email]

SeedAdmin(id, name, email) ==
    [_id |-> id + 1, email |-> email,
     password_hash |-> get_password_hash("Secret123"), organization_id |-> id,
     organization_name |-> name, role |-> "admin", is_active |-> TRUE]

SeedCollection(id, name) ==
    [name |-> _generate_collection_name(name), docs |-> 1, by |-> id]

SeedToken(id, name, email) ==
    create_access_token([sub |-> id + 1, email |-> email, organization_id |-> id,
                         organization_name |-> name], access_token_expire, 0)

\* The organizations created before the behaviour starts: <<id, name, email>>.
Seeds ==
    { {},
      {<<1, "acme", "a@x.com">>},
      {<<1, "acme", "a@x.com">>, <<3, "beta", "b@x.com">>} }

InitDocs(seed) ==
    /\ organizations = {SeedOrg(s[1], s[2], s[3]) : s \in seed}
    /\ admin_users = {SeedAdmin(s[1], s[2], s[3]) : s \in seed}
    /\ collections = {SeedCollection(s[1], s[2]) : s \in seed}
    /\ nextId = 1 + 2 * Cardinality(seed)
    /\ tokens = {SeedToken(s[1], s[2], s[3]) : s \in seed}

InitStore(seed) ==
    /\ InitDocs(seed)
    /\ snap = NoSnap
    /\ gone = {}
    /\ now = 0
    /\ jwt = NoJwt

Init ==
    /\ \E seed \in Seeds : InitStore(seed)
    /\ task = [p \in Procs |-> Idle]
    /\ budget = MaxOps

\* One step of task p: the response of a finished request goes out first.
Serve(p) ==
    \/ Deliver(p)
    \/ Quiet /\ StartCreate(p)
    \/ Quiet /\ CreateFindOrg(p)
    \/ Quiet /\ CreateFindAdmin(p)
    \/ Quiet /\ CreateInsertOrg(p)
    \/ Quiet /\ CreateInsertAdmin(p)
    \/ Quiet /\ CreatePatchOrg(p)
    \/ Quiet /\ CreateCollection(p)
    \/ Quiet /\ CreateInsertMarker(p)
    \/ Quiet /\ CreateIndexes(p)
    \/ Quiet /\ StartUpdate(p)
    \/ Quiet /\ StartDelete(p)
    \/ Quiet /\ Authenticate(p)
    \/ Quiet /\ UpdateFindOrg(p)
    \/ Quiet /\ UpdateFindAdmin(p)
    \/ Quiet /\ UpdateFindExisting(p)
    \/ Quiet /\ UpdateRename(p)
    \/ Quiet /\ UpdatePatchOrg(p)
    \/ Quiet /\ UpdateFindEmail(p)
    \/ Quiet /\ UpdatePatchAdmin(p)
    \/ Quiet /\ UpdatePatchEmail(p)
    \/ Quiet /\ UpdateRefetch(p)
    \/ Quiet /\ DeleteFindOrg(p)
    \/ Quiet /\ DeleteFindAdmin(p)
    \/ Quiet /\ DeleteDropCollection(p)
    \/ Quiet /\ DeleteAdmins(p)
    \/ Quiet /\ DeleteOrg(p)
    \/ Quiet /\ StartLogin(p)
    \/ Quiet /\ LoginAuthenticate(p)
    \/ Quiet /\ LoginIssue(p)

\* The routes of /admin that only show the principal, and Create with
\* more names.
ServeAdmin(p) ==
    \/ Quiet /\ StartMe(p)
    \/ Quiet /\ StartVerify(p)
    \/ Quiet /\ StartCreateWith(p, MoreBodyNames)

\* Concurrent requests.
Next == \E p \in Procs : Serve(p)

Spec == Init /\ [][Next]_vars

\* Requests one after the other.
InitSeq ==
    /\ \E seed \in Seeds : InitStore(seed)
    /\ task = [p \in Procs |-> Idle]
    /\ budget = MaxSeqOps

NextSeq == Serve("t1") \/ ServeAdmin("t1")

SpecSeq == InitSeq /\ [][NextSeq]_vars

\* Requests one after the other, any store call of which may fail.
InitFault ==
    /\ \E seed \in Seeds : InitStore(seed)
    /\ task = [p \in Procs |-> Idle]
    /\ budget = MaxFaultOps

NextFault == Serve("t1") \/ (Quiet /\ StoreFault("t1"))

SpecFault == InitFault /\ [][NextFault]_vars

\* A Create in flight while Login and Delete requests come and go, any
\* store call of which may fail.
InitChurn ==
    /\ \E seed \in Seeds : InitStore(seed)
    /\ \E raw \in BodyNames, email \in Emails, password \in CreatePasswords :
          task = [p \in Procs |->
                    IF p = "t1"
                    THEN [Idle EXCEPT !.op = "create", !.pc = "c_find_org",
                                      !.organization_name = validate_organization_name(raw),
                                      !.email = email, !.password = password]
                    ELSE Idle]
    /\ budget = MaxChurnOps

NextChurn ==
    \E p \in Procs :
        \/ Deliver(p)
        \/ Quiet /\ CreateFindOrg(p)
        \/ Quiet /\ CreateFindAdmin(p)
        \/ Quiet /\ CreateInsertOrg(p)
        \/ Quiet /\ CreateInsertAdmin(p)
        \/ Quiet /\ CreatePatchOrg(p)
        \/ Quiet /\ CreateCollection(p)
        \/ Quiet /\ CreateInsertMarker(p)
        \/ Quiet /\ CreateIndexes(p)
        \/ Quiet /\ StartLogin(p)
        \/ Quiet /\ LoginAuthenticate(p)
        \/ Quiet /\ LoginIssue(p)
        \/ Quiet /\ StartDelete(p)
        \/ Quiet /\ Authenticate(p)
        \/ Quiet /\ DeleteFindOrg(p)
        \/ Quiet /\ DeleteFindAdmin(p)
        \/ Quiet /\ DeleteDropCollection(p)
        \/ Quiet /\ DeleteAdmins(p)
        \/ Quiet /\ DeleteOrg(p)
        \/ Quiet /\ StoreFault(p)

SpecChurn == InitChurn /\ [][NextChurn]_vars

\* The authenticated routes, concurrently: Update (of the name, or of the
\* name and the email), Delete, /admin/me and /admin/verify-token with the
\* tokens issued before the behaviour starts.
ServeAuth(p) ==
    \/ Deliver(p)
    \/ Quiet /\ StartUpdateWith(p, BodyNames, {NoStr, "b@x.com"}, {NoStr})
    \/ Quiet /\ StartDelete(p)
    \/ Quiet /\ StartMe(p)
    \/ Quiet /\ StartVerify(p)
    \/ Quiet /\ Authenticate(p)
    \/ Quiet /\ UpdateFindOrg(p)
    \/ Quiet /\ UpdateFindAdmin(p)
    \/ Quiet /\ UpdateFindExisting(p)
    \/ Quiet /\ UpdateRename(p)
    \/ Quiet /\ UpdatePatchOrg(p)
    \/ Quiet /\ UpdateFindEmail(p)
    \/ Quiet /\ UpdatePatchAdmin(p)
    \/ Quiet /\ UpdatePatchEmail(p)
    \/ Quiet /\ UpdateRefetch(p)
    \/ Quiet /\ DeleteFindOrg(p)
    \/ Quiet /\ DeleteFindAdmin(p)
    \/ Quiet /\ DeleteDropCollection(p)
    \/ Quiet /\ DeleteAdmins(p)
    \/ Quiet /\ DeleteOrg(p)

InitAuth ==
    /\ \E seed \in Seeds : InitStore(seed)
    /\ task = [p \in Procs |-> Idle]
    /\ budget = MaxAuthOps

NextAuth == \E p \in Procs : ServeAuth(p)

SpecAuth == InitAuth /\ [][NextAuth]_vars

\* Two Create requests for the same free name, with different free emails,
\* racing from their first store call on.
RaceEmails == Emails \cup {"c@x.com"}

InitRace ==
    /\ \E seed \in Seeds : InitStore(seed)
    /\ \E raw \in BodyNames, e1 \in RaceEmails, e2 \in RaceEmails,
          password \in CreatePasswords :
          /\ e1 # e2
          /\ find_org_by_name(validate_organization_name(raw)) = NoOrg
          /\ ~CollectionExists(_generate_collection_name(raw))
          /\ find_admin_by_email(e1) = NoAdmin
          /\ find_admin_by_email(e2) = NoAdmin
          /\ task = [p \in Procs |->
                      [Idle EXCEPT !.op = "create", !.pc = "c_find_org",
                                   !.organization_name = validate_organization_name(raw),
                                   !.email = IF p = "t1" THEN e1 ELSE e2,
                                   !.password = password]]
    /\ budget = 0

NextRace ==
    \E p \in Procs :
        \/ CreateFindOrg(p)
        \/ CreateFindAdmin(p)
        \/ CreateInsertOrg(p)
        \/ CreateInsertAdmin(p)
        \/ CreatePatchOrg(p)
        \/ CreateCollection(p)
        \/ CreateInsertMarker(p)
        \/ CreateIndexes(p)

SpecRace == InitRace /\ [][NextRace]_vars

(***************************************************************************)
(* One Update against a store of two organizations, with names and emails  *)
(* whose text holds a word the routes look for in error messages.          *)
(***************************************************************************)
UpdateSeeds ==
    { {<<1, "acme", "a@x.com">>, <<3, "beta", "b@x.com">>},
      {<<1, "acme", "a@x.com">>, <<3, "unauthorized_org", "unauthorized@x.com">>} }

InitUpdate ==
    /\ \E seed \in UpdateSeeds : InitStore(seed)
    /\ \E current_org_name \in QueryNames \cup {"unauthorized_org"},
          raw \in BodyNames \cup {"unauthorized_org"},
          email \in Emails \cup {NoStr, "unauthorized@x.com"},
          token \in tokens :
           task = [p \in Procs |->
                     IF p = "t1"
                     THEN [Idle EXCEPT !.op = "update", !.pc = "auth",
                                       !.org_name = current_org_name,
                                       !.organization_name = raw,
                                       !.email = email, !.token = token]
                     ELSE Idle]
    /\ budget = 0

NextUpdate ==
    \/ Authenticate("t1")
    \/ UpdateFindOrg("t1")
    \/ UpdateFindAdmin("t1")
    \/ UpdateFindExisting("t1")
    \/ UpdateRename("t1")
    \/ UpdatePatchOrg("t1")
    \/ UpdateFindEmail("t1")
    \/ UpdatePatchAdmin("t1")
    \/ UpdatePatchEmail("t1")
    \/ UpdateRefetch("t1")

SpecUpdate == InitUpdate /\ [][NextUpdate]_vars

(***************************************************************************)
(* One Login, alone or racing with one Update or Delete of the admins      *)
(* whose tokens were issued before.                                        *)
(***************************************************************************)
\* The request the second task runs beside the Login, if any.
LoginRivals ==
    {Idle}
    \cup {[Idle EXCEPT !.op = "delete", !.pc = "auth", !.org_name = n, !.token = tk]
             : n \in QueryNames, tk \in tokens}
    \cup {[Idle EXCEPT !.op = "update", !.pc = "auth", !.org_name = n,
                        !.organization_name = raw, !.email = e, !.password = pw,
                        !.token = tk]
             : n \in QueryNames, raw \in BodyNames, e \in Emails \cup {NoStr},
               pw \in UpdatePasswords \cup {NoStr}, tk \in tokens}

InitLogin ==
    /\ \E seed \in Seeds : InitDocs(seed)
    /\ gone = {}
    /\ now = 0
    /\ jwt = NoJwt
    /\ budget = 0
    /\ \E email \in Emails, password \in Passwords, rival \in LoginRivals :
           /\ task = [p \in Procs |->
                        IF p = "t1"
                        THEN [Idle EXCEPT !.op = "login", !.pc = "l_find_admin",
                                          !.email = email, !.password = password]
                        ELSE rival]
           /\ snap = IF rival = Idle
                     THEN [owner |-> "t1", organizations |-> organizations,
                           admin_users |-> admin_users, collections |-> collections]
                     ELSE NoSnap

NextLogin ==
    \/ LoginAuthenticate("t1")
    \/ LoginIssue("t1")
    \/ Authenticate("t2")
    \/ UpdateFindOrg("t2")
    \/ UpdateFindAdmin("t2")
    \/ UpdateFindExisting("t2")
    \/ UpdateRename("t2")
    \/ UpdatePatchOrg("t2")
    \/ UpdateFindEmail("t2")
    \/ UpdatePatchAdmin("t2")
    \/ UpdatePatchEmail("t2")
    \/ UpdateRefetch("t2")
    \/ DeleteFindOrg("t2")
    \/ DeleteFindAdmin("t2")
    \/ DeleteDropCollection("t2")
    \/ DeleteAdmins("t2")
    \/ DeleteOrg("t2")

SpecLogin == InitLogin /\ [][NextLogin]_vars

(***************************************************************************)
(* One Update that supplies an email, alone or racing with another such    *)
(* Update or with a Create, from their first store call on.                *)
(***************************************************************************)
EmailUpdates ==
    {[Idle EXCEPT !.op = "update", !.pc = "auth", !.org_name = n,
                  !.organization_name = raw, !.email = e, !.token = tk]
       : n \in QueryNames, raw \in BodyNames, e \in RaceEmails, tk \in tokens}

EmailCreates ==
    {[Idle EXCEPT !.op = "create", !.pc = "c_find_org",
                  !.organization_name = validate_organization_name(raw),
                  !.email = e, !.password = pw]
       : raw \in BodyNames, e \in RaceEmails, pw \in CreatePasswords}

InitEmail ==
    /\ \E seed \in Seeds : InitDocs(seed)
    /\ gone = {}
    /\ now = 0
    /\ jwt = NoJwt
    /\ budget = 0
    /\ \E first \in EmailUpdates, second \in {Idle} \cup EmailUpdates \cup EmailCreates :
           /\ task = [p \in Procs |-> IF p = "t1" THEN first ELSE second]
           /\ snap = IF second = Idle
                     THEN [owner |-> "t1", organizations |-> organizations,
                           admin_users |-> admin_users, collections |-> collections]
                     ELSE NoSnap

NextEmail ==
    \E p \in Procs :
        \/ Authenticate(p)
        \/ UpdateFindOrg(p)
        \/ UpdateFindAdmin(p)
        \/ UpdateFindExisting(p)
        \/ UpdateRename(p)
        \/ UpdatePatchOrg(p)
        \/ UpdateFindEmail(p)
        \/ UpdatePatchAdmin(p)
        \/ UpdatePatchEmail(p)
        \/ UpdateRefetch(p)
        \/ CreateFindOrg(p)
        \/ CreateFindAdmin(p)
        \/ CreateInsertOrg(p)
        \/ CreateInsertAdmin(p)
        \/ CreatePatchOrg(p)
        \/ CreateCollection(p)
        \/ CreateInsertMarker(p)
        \/ CreateIndexes(p)

SpecEmail == InitEmail /\ [][NextEmail]_vars

\* An Update that may rename its organization, alone or racing with
\* another such Update or with a Delete, from its first step on.
RenameNames == {"gamma", "acme", "beta"}

RenameUpdates ==
    {[Idle EXCEPT !.op = "update", !.pc = "auth", !.org_name = n,
                  !.organization_name = raw, !.email = e, !.token = tk]
       : n \in QueryNames, raw \in RenameNames, e \in {NoStr, "b@x.com", "c@x.com"},
         tk \in tokens}

RenameDeletes ==
    {[Idle EXCEPT !.op = "delete", !.pc = "auth", !.org_name = n, !.token = tk]
       : n \in QueryNames, tk \in tokens}

InitRename ==
    /\ \E seed \in Seeds : InitDocs(seed)
    /\ gone = {}
    /\ now = 0
    /\ jwt = NoJwt
    /\ budget = 0
    /\ \E first \in RenameUpdates,
          second \in {Idle} \cup RenameUpdates \cup RenameDeletes :
           /\ task = [p \in Procs |-> IF p = "t1" THEN first ELSE second]
           /\ snap = IF second = Idle
                     THEN [owner |-> "t1", organizations |-> organizations,
                           admin_users |-> admin_users, collections |-> collections]
                     ELSE NoSnap

NextRename ==
    \E p \in Procs :
        \/ Authenticate(p)
        \/ UpdateFindOrg(p)
        \/ UpdateFindAdmin(p)
        \/ UpdateFindExisting(p)
        \/ UpdateRename(p)
        \/ UpdatePatchOrg(p)
        \/ UpdateFindEmail(p)
        \/ UpdatePatchAdmin(p)
        \/ UpdatePatchEmail(p)
        \/ UpdateRefetch(p)
        \/ DeleteFindOrg(p)
        \/ DeleteFindAdmin(p)
        \/ DeleteDropCollection(p)
        \/ DeleteAdmins(p)
        \/ DeleteOrg(p)

SpecRename == InitRename /\ [][NextRename]_vars

(***************************************************************************)
(* A token on its own: issued from a set of claims with a lifetime, then   *)
(* possibly altered, and decoded as the clock advances.                    *)
(***************************************************************************)
\* The claims a token is issued from, and the lifetimes asked for (0: no
\* expires_delta, the default lifetime applies).
TokenClaims ==
    [sub : {2, 4}, email : Emails, organization_id : {1}, organization_name : {"acme"}]
TokenDeltas == {0, 1, 2}

\* The ways a token is altered after it was issued: a claim or the expiry
\* is changed under the old signature, or the token is signed again with
\* another key.
Alterations(token) ==
    { [token EXCEPT !.sub = 6 - @],
      [token EXCEPT !.organization_id = 3],
      [token EXCEPT !.exp = @ + 1],
      [token EXCEPT !.sig = Sign("other_key", token.sub, token.email,
                                 token.organization_id, token.organization_name,
                                 token.exp)] }

TokenIssue ==
    /\ jwt.phase \in {"none", "decoded"}
    /\ \E data \in TokenClaims, expires_delta \in TokenDeltas :
           jwt' = [phase |-> "issued", data |-> data, issued_at |-> now,
                   expires_delta |-> expires_delta,
                   token |-> create_access_token(data, expires_delta, now),
                   altered |-> FALSE, decoded_at |-> 0, payload |-> InvalidToken,
                   log |-> IF jwt.phase = "none" THEN {} ELSE jwt.log]
    /\ UNCHANGED <<organizations, admin_users, collections, nextId, tokens, task, budget, snap, gone, now>>

TokenAlter ==
    /\ jwt.phase \in {"issued", "decoded"} /\ ~jwt.altered
    /\ \E token \in Alterations(jwt.token) :
           jwt' = [jwt EXCEPT !.phase = "issued", !.token = token, !.altered = TRUE]
    /\ UNCHANGED <<organizations, admin_users, collections, nextId, tokens, task, budget, snap, gone, now>>

TokenDecode ==
    /\ jwt.phase \in {"issued", "decoded"}
    /\ LET payload == decode_token(jwt.token, now)
       IN jwt' = [jwt EXCEPT !.phase = "decoded", !.decoded_at = now,
                             !.payload = payload,
                             !.log = @ \cup {<<jwt.altered, now > jwt.token.exp,
                                               payload.ok>>}]
    /\ UNCHANGED <<organizations, admin_users, collections, nextId, tokens, task, budget, snap, gone, now>>

Tick ==
    /\ now < MaxNow
    /\ now' = now + 1
    /\ UNCHANGED <<organizations, admin_users, collections, nextId, tokens, task, budget, snap, gone, jwt>>

InitToken ==
    /\ InitStore({})
    /\ task = [p \in Procs |-> Idle]
    /\ budget = 0

NextToken == TokenIssue \/ TokenAlter \/ TokenDecode \/ Tick

SpecToken == InitToken /\ [][NextToken]_vars

(***************************************************************************)
(* Claims.                                                                 *)
(***************************************************************************)
Done(p, op) == task[p].pc = "done" /\ task[p].op = op

\* The request of task p ran alone: no other request was in flight from its
\* start on, and `snap` holds the store it started from.
Alone(p) == snap.owner = p

StoreAsAtStart ==
    /\ organizations = snap.organizations
    /\ admin_users = snap.admin_users
    /\ collections = snap.collections

\* C1: in every reachable state, whatever the interleaving of the store
\* calls of Create, Update and Delete, no two organization records have the
\* same name and no two have the same collection_name.
C1_Uniqueness ==
    \A a \in organizations, b \in organizations :
        a # b => a.name # b.name /\ a.collection_name # b.collection_name

\* A Create lost the race for its name: the index rejected its insert while
\* the record of the winner is in the store.
C1_Witness ==
    \E p \in Procs :
        /\ Done(p, "create") /\ task[p].status = 500
        /\ task[p].org = NoOrg /\ task[p].admin = NoAdmin /\ task[p].org_id = NoId
        /\ \E o \in organizations : o.name = task[p].organization_name

\* C2 (as claimed): every organization record has
\* collection_name = "org_" + name in every reachable state, also when two
\* Updates of the same organization are interleaved.
C2_DeterministicMapping ==
    \A o \in organizations : o.collection_name = "org_" \o o.name

\* C3: an Update or Delete whose target organization is not the organization
\* of the acting admin fails with 403 and has issued no write; when it ran
\* alone the store is as it was.
C3_AuthorizationGate ==
    \A p \in Procs :
        LET t == task[p] IN
        /\ t.pc = "done" /\ t.op \in {"update", "delete"}
        /\ t.org # NoOrg /\ t.admin # NoAdmin
        /\ t.admin.organization_id # t.org._id
        => /\ t.status = 403
           /\ ~t.wrote
           /\ Alone(p) => StoreAsAtStart

\* The admin of organization X has asked to update or delete the existing
\* organization Y and got 403.
C3_Witness ==
    \E p \in Procs, x \in organizations, y \in organizations :
        /\ x # y
        /\ task[p].pc = "done" /\ task[p].op \in {"update", "delete"}
        /\ task[p].org = y
        /\ task[p].admin # NoAdmin /\ task[p].admin.organization_id = x._id
        /\ task[p].status = 403

\* C4: of two Create requests for the same free name (with different free
\* emails) whose store calls interleave in any order, exactly one returns
\* success and the other an error, and at no moment do two organization
\* records have that name.
C4_OneCreateWins ==
    /\ (\A p \in Procs : task[p].pc = "done")
       => \E p \in Procs :
              /\ task[p].status = 201
              /\ \A q \in Procs \ {p} : task[q].status \in {409, 500}
    /\ \A p \in Procs :
           Cardinality({o \in organizations : o.name = task[p].organization_name}) <= 1

\* Both Creates passed the pre-check; one was stopped by the unique index
\* at its insert and the other went through.
C4_Witness ==
    \E p \in Procs, q \in Procs :
        /\ task[p].pc = "done" /\ task[p].status = 201
        /\ task[q].pc = "done" /\ task[q].status = 500
        /\ task[q].org = NoOrg /\ task[q].org_id = NoId

\* The insert of the organization, or of the admin, of Create request t was
\* rejected by a unique index: the request passed both pre-checks and ended
\* without the inserted id.
InsertRejected(t) ==
    /\ t.op = "create" /\ t.pc = "done" /\ t.status # 422
    /\ t.org = NoOrg /\ t.admin = NoAdmin
    /\ t.org_id = NoId \/ t.new_admin_id = NoId

\* C5 (as claimed): a Create whose organization insert or admin insert is
\* rejected by a unique index fails with 409, as the pre-check path does.
C5_InsertConflictIs409 ==
    \A p \in Procs : InsertRejected(task[p]) => task[p].status = 409

\* C6: a Create whose name is the name of an organization record, or whose
\* email is the email of an admin record, fails with 409 and changes
\* nothing: for a request that runs alone, judged on the store it starts
\* from; under any interleaving, judged on what its pre-check reads.
C6_DuplicateCreate ==
    \A p \in Procs :
        LET t == task[p] IN
        /\ (/\ Done(p, "create") /\ Alone(p) /\ t.status # 422
            /\ \/ \E o \in snap.organizations : o.name = t.organization_name
               \/ \E a \in snap.admin_users : a.email = t.email)
           => t.status = 409 /\ StoreAsAtStart
        /\ (Done(p, "create") /\ (t.org # NoOrg \/ t.admin # NoAdmin))
           => t.status = 409 /\ ~t.wrote

\* A Create for a free name with the email of an existing admin was refused.
C6_Witness ==
    \E p \in Procs :
        /\ Done(p, "create") /\ Alone(p)
        /\ task[p].org = NoOrg /\ task[p].admin # NoAdmin
        /\ task[p].status = 409

\* C7: a Create that returns 201 after running alone has added exactly one
\* organization record (the name, collection_name "org_" + name, active,
\* admin_id and admin_email set), exactly one admin record (the email,
\* organization_id the new organization's id) and exactly one tenant
\* collection "org_" + name holding one marker document; the response
\* carries that collection_name.
C7_CreateEffect ==
    \A p \in Procs :
        LET t == task[p]
            newOrgs == organizations \ snap.organizations
            newAdmins == admin_users \ snap.admin_users
            newColls == collections \ snap.collections
        IN
        Done(p, "create") /\ Alone(p) /\ t.status = 201
        => /\ snap.organizations \subseteq organizations
           /\ snap.admin_users \subseteq admin_users
           /\ snap.collections \subseteq collections
           /\ Cardinality(newOrgs) = 1
           /\ Cardinality(newAdmins) = 1
           /\ Cardinality(newColls) = 1
           /\ \A o \in newOrgs, a \in newAdmins, c \in newColls :
                  /\ o.name = t.organization_name
                  /\ o.collection_name = "org_" \o t.organization_name
                  /\ o.is_active
                  /\ o.admin_id = a._id /\ o.admin_email = t.email
                  /\ a.email = t.email /\ a.organization_id = o._id
                  /\ a._id # NoId /\ o._id # NoId
                  /\ \A x \in snap.organizations \cup snap.admin_users :
                         x._id # o._id /\ x._id # a._id
                  /\ c.name = "org_" \o t.organization_name /\ c.docs = 1
                  /\ t.data = "org_" \o t.organization_name

\* A Create ran alone and returned 201.
C7_Witness ==
    \E p \in Procs : Done(p, "create") /\ Alone(p) /\ task[p].status = 201

\* C8: when an Update that renames organization x to y has run alone and
\* returned 200, Get by name x gives 404 and Get by name y gives 200, the
\* tenant collection exists as "org_" + y and none exists as "org_" + x, and
\* the record named y has the id the record named x had.
C8_RenameEffect ==
    \A p \in Procs :
        LET t == task[p]
            x == Lower(t.org_name)
            y == t.organization_name
        IN
        Done(p, "update") /\ Alone(p) /\ t.status = 200 /\ x # y
        => /\ GetStatus(x) = 404
           /\ GetStatus(y) = 200
           /\ CollectionExists("org_" \o y)
           /\ ~CollectionExists("org_" \o x)
           /\ \E o \in snap.organizations :
                  o.name = x /\ find_org_by_name(y)._id = o._id

\* An Update ran alone, renamed its organization and returned 200.
C8_Witness ==
    \E p \in Procs :
        /\ Done(p, "update") /\ Alone(p) /\ task[p].status = 200
        /\ Lower(task[p].org_name) # task[p].organization_name

\* C9 (as claimed): once a Delete has returned success, every later login
\* with the email of the deleted admin fails with 401.
C9_LoginFailsEverAfter ==
    \A p \in Procs :
        Done(p, "login") /\ task[p].email \in gone => task[p].status = 401

\* C9 (amended): when a Delete that ran alone returns 200, the organization
\* record is absent (Get gives 404), no admin record has its id as
\* organization_id, its tenant collection is absent, and login with the
\* email of the deleted admin gives 401 whatever the password; a later
\* login with that email succeeds only through an admin record that holds
\* the email again.
C9_DeleteEffect ==
    \A p \in Procs :
        LET t == task[p] IN
        /\ Done(p, "delete") /\ Alone(p) /\ t.status = 200
           => /\ GetStatus(t.org_name) = 404
              /\ find_org_by_id(t.org._id) = NoOrg
              /\ \A a \in admin_users : a.organization_id # t.org._id
              /\ ~CollectionExists(t.org.collection_name)
              /\ \A a \in snap.admin_users :
                     a.organization_id = t.org._id
                     => \A password \in Passwords : LoginStatus(a.email, password) = 401
        /\ Done(p, "login") /\ Alone(p) /\ t.email \in gone /\ t.status # 401
           => t.admin \in admin_users /\ t.admin.email = t.email

\* A Delete ran alone and returned 200, and its organization had an admin
\* whose password was known.
C9_Witness ==
    \E p \in Procs :
        /\ Done(p, "delete") /\ Alone(p) /\ task[p].status = 200
        /\ \E a \in snap.admin_users, password \in Passwords :
               /\ a.organization_id = task[p].org._id
               /\ verify_password(password, a.password_hash)

\* No organization record had the name the request of task p gives when the
\* request started (alone).
NamedOrgMissingAtStart(p) ==
    /\ Alone(p)
    /\ \A o \in snap.organizations : o.name # Lower(task[p].org_name)

\* C10 (as claimed): a Delete request (carrying a token that login issued)
\* naming an organization for which no record exists returns 404.
C10_MissingIs404 ==
    \A p \in Procs :
        Done(p, "delete") /\ NamedOrgMissingAtStart(p) /\ task[p].token \in tokens
        => task[p].status = 404

\* C10 (amended): a Delete request naming an organization for which no
\* record exists never returns success and changes nothing; it returns 404
\* when its token validates, and 401 (403 without Authorization header)
\* when it does not, as for the token of an admin that a first Delete has
\* removed.
C10_DeleteMissing ==
    \A p \in Procs :
        LET t == task[p] IN
        /\ Done(p, "delete") /\ NamedOrgMissingAtStart(p)
           => /\ t.status \in {401, 403, 404}
              /\ StoreAsAtStart
              /\ t.status = 404 <=> validate_token(t.token) # NoTokenData
              /\ t.status = 403 <=> t.token = NoHeader
        /\ Done(p, "delete") /\ t.org = NoOrg
           => /\ t.status # 200 /\ ~t.wrote
              /\ t.admin_id # NoId => t.status = 404
              /\ t.admin_id = NoId => t.status \in {401, 403}

\* After a Delete has succeeded, a Delete naming an organization without
\* record, sent with a token that still validates, got 404.
C10_Witness ==
    \E p \in Procs :
        /\ Done(p, "delete") /\ NamedOrgMissingAtStart(p)
        /\ gone # {} /\ task[p].token \in tokens
        /\ task[p].status = 404

\* C11: after a Create(name, email, password) that ran alone has returned
\* 201, login with that email and password succeeds and validating the
\* token it issues yields the principal of the created admin: its id, the
\* id of the created organization and the name.  And whenever /admin/me
\* answers 200 for a token that login issued, the principal it shows is the
\* one of the claims of that token.
C11_LoginAfterCreate ==
    \A p \in Procs :
        LET t == task[p]
            token == login(t.email, t.password)
            principal == validate_token(token)
        IN
        /\ Done(p, "create") /\ Alone(p) /\ t.status = 201
           => /\ LoginStatus(t.email, t.password) = 200
              /\ token.kind = "jwt"
              /\ principal.admin_id = t.new_admin_id /\ t.new_admin_id # NoId
              /\ principal.organization_id = t.org_id /\ t.org_id # NoId
              /\ principal.organization_name = t.organization_name
        /\ Done(p, "login") /\ Alone(p) /\ t.status = 200
           => /\ t.token = login(t.email, t.password)
              /\ validate_token(t.token).admin_id = find_admin_by_email(t.email)._id
        /\ Done(p, "me") /\ t.status = 200
           => /\ t.principal.admin_id = t.token.sub
              /\ t.principal.organization_id = t.token.organization_id
              /\ t.principal.organization_name = t.token.organization_name

\* Scenario 3 on an empty store: Create "beta", login, then /admin/me with
\* the issued token shows organization_name "beta".
C11_Witness ==
    \E p \in Procs :
        /\ Done(p, "me") /\ task[p].status = 200
        /\ task[p].principal.organization_name = "beta"
        /\ task[p].principal.organization_id = 1
        /\ \E o \in organizations :
               o._id = 1 /\ o.name = "beta" /\ o.admin_id = task[p].principal.admin_id

\* The routes behind get_current_admin.
AuthenticatedOps == {"update", "delete", "me", "verify"}

\* The step in which get_current_admin lets the request of task p through.
Admitted(p) ==
    /\ task[p].pc = "auth"
    /\ task'[p].pc # "auth"
    /\ ~(task'[p].pc = "done" /\ task'[p].status \in {401, 403})

\* C12: whenever get_current_admin lets a request through, an active admin
\* record with the id of the token's subject exists at that moment; and a
\* request on any authenticated route that starts (alone) when the
\* organization of its token has been deleted is answered 401.
C12_TokenRecheck ==
    /\ [][\A p \in Procs :
             Admitted(p) => \E a \in admin_users :
                                a._id = task[p].token.sub /\ a.is_active]_vars
    /\ [](\A p \in Procs :
             LET t == task[p] IN
             /\ t.pc = "done" /\ t.op \in AuthenticatedOps /\ Alone(p)
             /\ t.token.kind = "jwt"
             /\ \A o \in snap.organizations : o._id # t.token.organization_id
             => t.status = 401 /\ StoreAsAtStart)

\* After a Delete has removed an organization, /admin/verify-token with the
\* token issued earlier to its admin got 401.
C12_Witness ==
    \E p \in Procs :
        /\ Done(p, "verify") /\ Alone(p)
        /\ task[p].token \in tokens /\ task[p].token.email \in gone
        /\ \A o \in snap.organizations : o._id # task[p].token.organization_id
        /\ task[p].status = 401

\* The claims the payload of a successful decode carries.
ClaimsOf(payload) ==
    [sub |-> payload.sub, email |-> payload.email,
     organization_id |-> payload.organization_id,
     organization_name |-> payload.organization_name]

\* C13: decoding a token issued from a set of claims returns those claims
\* while its expiry (the time of issue plus the lifetime) has not passed
\* and the token is as issued; it fails with InvalidToken once the expiry
\* has passed, and whenever the token has been altered.
C13_TokenRoundTrip ==
    jwt.phase = "decoded" =>
        LET expiry == jwt.issued_at +
                      (IF jwt.expires_delta = 0 THEN access_token_expire
                       ELSE jwt.expires_delta)
        IN IF ~jwt.altered /\ jwt.decoded_at <= expiry
           THEN jwt.payload.ok /\ ClaimsOf(jwt.payload) = jwt.data
           ELSE jwt.payload = InvalidToken

\* The three cases have happened: a token decoded in time as issued (the
\* claims came back), a token decoded in time after an alteration
\* (refused), and a token decoded as issued after its expiry (refused).
C13_Witness ==
    /\ jwt.phase = "decoded"
    /\ <<FALSE, FALSE, TRUE>> \in jwt.log
    /\ <<TRUE, FALSE, FALSE>> \in jwt.log
    /\ <<FALSE, TRUE, FALSE>> \in jwt.log

\* The identifier grammar as the claim states it: a name fails it when it
\* is not letter-leading, or holds a character other than letters, digits
\* and underscore, or is shorter than 3 characters.
FailsGrammar(v) ==
    LET cs == Chars(v)
    IN \/ Len(cs) < 3
       \/ cs[1] \notin Letters
       \/ \E i \in 1..Len(cs) : cs[i] \notin Letters \cup Digits \cup {"_"}

C15_StatusByKind ==
    \A p \in Procs :
        LET t == task[p] IN
        Done(p, "update") =>
            /\ t.err = "not_found" => t.status = 404
            /\ t.err = "unauthorized" => t.status = 403
            /\ t.err \in {"already_exists", "email_in_use"} => t.status = 409

\* The orchestrator (and the route body) did not run for request t.
NotInvoked(t) ==
    /\ ~t.wrote /\ t.err = "none"
    /\ t.org = NoOrg /\ t.admin = NoAdmin /\ t.existing = NoId
    /\ t.principal = NoTokenData /\ t.admin_id = NoId

\* The token of request t did not validate against the store the request
\* started from: it does not decode, or no active admin has its subject id.
FailedValidationAtStart(t) ==
    \/ ~decode_token(t.token, now).ok
    \/ \A a \in snap.admin_users : a._id = t.token.sub => ~a.is_active

\* C16: on Update, Delete, /admin/me and /admin/verify-token a request
\* without Authorization header is answered 403 and one whose token fails
\* validation is answered 401; in both cases the orchestrator is not
\* invoked and the store does not change.
C16_RejectedBeforeService ==
    \A p \in Procs :
        LET t == task[p] IN
        t.pc = "done" /\ t.op \in AuthenticatedOps =>
            /\ t.token = NoHeader
               => t.status = 403 /\ NotInvoked(t) /\ (Alone(p) => StoreAsAtStart)
            /\ t.token # NoHeader /\ Alone(p) /\ FailedValidationAtStart(t)
               => t.status = 401 /\ NotInvoked(t) /\ StoreAsAtStart
            /\ t.token # NoHeader /\ t.principal = NoTokenData
               => t.status = 401 /\ NotInvoked(t)

\* On a store with organizations, /admin/verify-token with a token whose
\* expiry was pushed back under the old signature got 401.
C16_Witness ==
    \E p \in Procs :
        /\ Done(p, "verify") /\ Alone(p)
        /\ task[p].token \in {Forged(tk) : tk \in tokens}
        /\ task[p].status = 401
        /\ organizations # {}

\* The conditions of a successful login, on given admin and organization
\* records: an admin record with the email exists, is active, its stored
\* hash verifies the password, and the organization it references exists.
LoginConditions(email, password, admins, orgs) ==
    \E a \in admins :
        /\ a.email = email /\ a.is_active
        /\ verify_password(password, a.password_hash)
        /\ \E o \in orgs : o._id = a.organization_id

\* A step of the Login of task p that reads the admin / the organization.
LoginReadsAdmin(p) == task[p].pc = "l_find_admin" /\ task'[p].pc # "l_find_admin"
LoginReadsOrg(p) == task[p].pc = "l_find_org" /\ task'[p].pc # "l_find_org"

\* C17: login returns a token if and only if an admin record with the
\* email exists, is active, its hash verifies the password and the
\* organization it references exists; otherwise it returns 401 and no
\* token; login never writes to the store.  For a Login that runs alone
\* the conditions are those of the store it starts from; when it races
\* with a write, each condition is the one found at the moment login reads
\* it.
C17_LoginIff ==
    /\ [](\A p \in Procs :
             LET t == task[p] IN
             Done(p, "login") =>
                 /\ t.status \in {200, 401}
                 /\ ~t.wrote
                 /\ t.status = 200 <=> t.token # NoHeader
                 /\ t.status = 200 => t.token \in tokens /\ t.token.kind = "jwt"
                 /\ Alone(p) =>
                        /\ StoreAsAtStart
                        /\ t.status = 200 <=>
                               LoginConditions(t.email, t.password,
                                               snap.admin_users, snap.organizations))
    /\ [][\A p \in Procs :
             /\ LoginReadsAdmin(p) \/ LoginReadsOrg(p)
                => UNCHANGED <<organizations, admin_users, collections>>
             /\ LoginReadsAdmin(p)
                => (task'[p].pc = "l_find_org" <=>
                       \E a \in admin_users :
                           /\ a.email = task[p].email /\ a.is_active
                           /\ verify_password(task[p].password, a.password_hash))
             /\ LoginReadsOrg(p)
                => (task'[p].status = 200 <=>
                       \E o \in organizations : o._id = task[p].admin.organization_id)]_vars

\* A Login that ran alone with the email of an existing admin and a
\* password its hash does not verify got 401 and no token.
C17_Witness ==
    \E p \in Procs :
        /\ Done(p, "login") /\ Alone(p)
        /\ \E a \in admin_users :
               a.email = task[p].email /\ ~verify_password(task[p].password, a.password_hash)
        /\ task[p].status = 401 /\ task[p].token = NoHeader

\* C18: in every reachable state, whatever the interleaving of the store
\* calls of Creates and Updates (two Updates of different organizations
\* that set the same new email included), no two admin records have the
\* same email.
C18_EmailUniqueness ==
    \A a \in admin_users, b \in admin_users : a # b => a.email # b.email

\* Two Updates of different organizations set the same free email: both
\* passed the check, one patched its admin, the index refused the other.
C18_Witness ==
    \E p \in Procs, q \in Procs :
        /\ p # q
        /\ task[p].op = "update" /\ task[q].op = "update"
        /\ task[p].org # NoOrg /\ task[q].org # NoOrg
        /\ task[p].org._id # task[q].org._id
        /\ task[p].email = task[q].email
        /\ task[p].pc = "done" /\ task[p].status = 500 /\ task[p].existing = NoId
        /\ \E a \in admin_users : a._id = task[q].admin_id /\ a.email = task[q].email
        /\ \A a \in admin_users : a._id = task[p].admin_id => a.email # task[p].email

\* The email of every admin record, and the admin_email of every
\* organization record.
EmailsOf(admins) == {<<a._id, a.email>> : a \in admins}
AdminEmailsOf(orgs) == {<<o._id, o.admin_email>> : o \in orgs}

\* C19: an Update of an authenticated admin, running alone, that supplies
\* an email held by an admin record other than the acting admin does not
\* succeed, and changes no
\* admin's email and no organization's admin_email; when nothing else is
\* wrong with it (the organization exists, the admin belongs to it, the
\* new name is free) it fails with the AlreadyExists error of the email.
\* An Update that supplies the acting admin's own current email is not
\* rejected for the email.
C19_EmailTaken ==
    \A p \in Procs :
        LET t == task[p] IN
        Done(p, "update") /\ Alone(p) /\ t.admin_id # NoId /\ t.email # NoStr =>
            /\ (\E a \in snap.admin_users : a.email = t.email /\ a._id # t.admin_id)
               => /\ t.status # 200
                  /\ EmailsOf(admin_users) = EmailsOf(snap.admin_users)
                  /\ AdminEmailsOf(organizations) = AdminEmailsOf(snap.organizations)
                  /\ t.err \notin {"not_found", "unauthorized", "already_exists"}
                     => t.err = "email_in_use" /\ t.existing # t.admin_id
            /\ (\E a \in snap.admin_users : a.email = t.email /\ a._id = t.admin_id)
               => /\ t.err # "email_in_use"
                  /\ t.err = "none" => t.status = 200
            /\ t.err = "email_in_use"
               => \E a \in snap.admin_users : a.email = t.email /\ a._id # t.admin_id

\* An Update that ran alone and changed the name of its organization was
\* refused for its email, which another admin holds.
C19_Witness ==
    \E p \in Procs :
        /\ Done(p, "update") /\ Alone(p)
        /\ task[p].err = "email_in_use" /\ task[p].wrote
        /\ \E a \in admin_users : a.email = task[p].email /\ a._id # task[p].admin_id

\* The ids of a set of records.
IdsOf(records) == {r._id : r \in records}

\* The steps of a Create that provision its tenant collection.
ProvisionSteps == {"c_create_collection", "c_insert_marker", "c_create_index"}

\* What one step of the Create of task p writes.
CreateStepWrites(p) ==
    LET t == task[p] IN
    /\ IdsOf(organizations') # IdsOf(organizations)
       => /\ t.pc = "c_insert_org"
          /\ IdsOf(organizations') = IdsOf(organizations) \cup {task'[p].org_id}
          /\ admin_users' = admin_users /\ collections' = collections
          /\ ~\E a \in admin_users : a.organization_id = task'[p].org_id
          /\ ~\E c \in collections : c.by = task'[p].org_id
    /\ admin_users' # admin_users
       => /\ t.pc = "c_insert_admin"
          /\ organizations' = organizations /\ collections' = collections
          /\ \E o \in organizations : o._id = t.org_id /\ o.admin_id = NoId
          /\ \E a \in admin_users' \ admin_users :
                 a._id = task'[p].new_admin_id /\ a.organization_id = t.org_id
          /\ ~\E c \in collections : c.by = t.org_id
    /\ organizations' # organizations /\ IdsOf(organizations') = IdsOf(organizations)
       => /\ t.pc = "c_patch_org"
          /\ admin_users' = admin_users /\ collections' = collections
          /\ t.new_admin_id # NoId
          /\ \E o \in organizations' :
                 o._id = t.org_id /\ o.admin_id = t.new_admin_id /\ o.admin_email = t.email
          /\ ~\E c \in collections : c.by = t.org_id
    /\ collections' # collections
       => /\ t.pc \in ProvisionSteps
          /\ organizations' = organizations /\ admin_users' = admin_users
          /\ t.new_admin_id # NoId
          /\ \A o \in organizations : o._id = t.org_id => o.admin_id = t.new_admin_id

\* C20: the steps of a Create write in the order insert organization
\* record, insert admin record, patch the organization record with the
\* admin reference, provision the tenant collection.  A tenant collection
\* made by a Create exists only once that Create has patched its
\* organization record, and a Create that fails has made none.
C20_ProvisionLast ==
    /\ [][\A p \in Procs :
             task[p].op = "create" /\ task[p].pc # "done" /\ task'[p] # task[p]
             => CreateStepWrites(p)]_vars
    /\ [](\A p \in Procs :
             LET t == task[p] IN
             t.op = "create" =>
                 /\ (t.org_id # NoId /\ \E c \in collections : c.by = t.org_id)
                    => /\ t.pc \in {"c_insert_marker", "c_create_index", "done"}
                       /\ t.new_admin_id # NoId
                       /\ \A o \in organizations :
                              o._id = t.org_id => o.admin_id = t.new_admin_id
                 /\ (t.pc = "done" /\ t.status # 201 /\ t.org_id # NoId)
                    => ~\E c \in collections : c.by = t.org_id)

\* Of two racing Creates one has provisioned its collection, its record
\* carrying its admin reference, and the other has failed on its insert.
C20_Witness ==
    \E p, q \in Procs :
        /\ task[p].op = "create" /\ task[p].pc = "c_insert_marker"
        /\ \E c \in collections : c.by = task[p].org_id
        /\ \E o \in organizations :
               o._id = task[p].org_id /\ o.admin_id = task[p].new_admin_id
        /\ Done(q, "create") /\ task[q].status = 500

\* The request of task p has ended in failure after Create inserted its
\* organization record.
CreateFailedAfterInsert(p) ==
    /\ Done(p, "create") /\ task[p].status = 500
    /\ task[p].org_id # NoId

\* C21: a Create that fails after its organization record was inserted (at
\* the admin insert, the organization patch or the provisioning) leaves the
\* organization record, and the admin record if it was inserted, in the
\* store: the failing step changes nothing, and when the admin insert
\* failed the record has no admin and no tenant collection.
C21_NoCompensation ==
    /\ [][\A p \in Procs :
             /\ task[p].op = "create" /\ task[p].pc # "done"
             /\ task'[p].pc = "done" /\ task'[p].status # 201
             => /\ organizations' = organizations
                /\ admin_users' = admin_users
                /\ collections' = collections]_vars
    /\ [](\A p \in Procs :
             LET t == task[p] IN
             CreateFailedAfterInsert(p) =>
                 /\ \E o \in organizations :
                        /\ o._id = t.org_id /\ o.name = t.organization_name
                        /\ t.new_admin_id = NoId
                           => /\ o.admin_id = NoId
                              /\ ~\E a \in admin_users : a.organization_id = o._id
                              /\ ~\E c \in collections : c.by = o._id
                 /\ t.new_admin_id # NoId
                    => \E a \in admin_users :
                           a._id = t.new_admin_id /\ a.organization_id = t.org_id)

\* A Create has failed at its admin insert: its organization record is in
\* the store with no admin and no tenant collection of its name.
C21_Witness ==
    \E p \in Procs :
        /\ CreateFailedAfterInsert(p) /\ task[p].new_admin_id = NoId
        /\ \E o \in organizations :
               /\ o._id = task[p].org_id /\ o.admin_id = NoId
               /\ ~\E a \in admin_users : a.organization_id = o._id
               /\ ~CollectionExists(o.collection_name)

\* The Update of task p has renamed the tenant collection and has not
\* patched the organization record: it is about to, or a store failure
\* has ended it there.
BetweenRenameAndPatch(p) ==
    LET t == task[p] IN
    /\ t.op = "update" /\ t.org # NoOrg /\ CollectionChanges(t)
    /\ \/ t.pc = "u_patch_org"
       \/ /\ t.pc = "done" /\ t.err = "store_failure" /\ t.wrote
          /\ \E o \in organizations : o._id = t.org._id /\ o.name = t.org.name

\* C22: an Update that changes the name renames the tenant collection
\* first and then patches name and collection_name of the organization
\* record in one write.  Between the two, and for good if the Update stops
\* there, the record's collection_name names no collection and the
\* collection exists under the new identifier.
C22_RenameBeforePatch ==
    /\ [][\A p \in Procs :
             LET t == task[p]
                 new_collection_name == _generate_collection_name(t.organization_name)
             IN
             t.op = "update" /\ t.pc # "done" /\ task'[p] # t =>
                 /\ collections' # collections
                    => /\ t.pc = "u_rename"
                       /\ organizations' = organizations
                       /\ \E o \in organizations :
                              /\ o._id = t.org._id /\ o.name = t.org.name
                              /\ o.collection_name = t.org.collection_name
                       /\ \E c \in collections : \E d \in collections' :
                              /\ c.name = t.org.collection_name
                              /\ d = [c EXCEPT !.name = new_collection_name]
                              /\ collections' = (collections \ {c}) \cup {d}
                 /\ (/\ t.pc = "u_patch_org" /\ CollectionChanges(t)
                     /\ organizations' # organizations)
                    => /\ collections' = collections
                       /\ \E o \in organizations' :
                              /\ o._id = t.org._id /\ o.name = t.organization_name
                              /\ o.collection_name = new_collection_name
                              /\ CollectionExists(o.collection_name)]_vars
    /\ [](\A p \in Procs :
             LET t == task[p] IN
             BetweenRenameAndPatch(p) =>
                 \E o \in organizations :
                     /\ o._id = t.org._id /\ o.name = t.org.name
                     /\ o.collection_name = t.org.collection_name
                     /\ ~CollectionExists(o.collection_name)
                     /\ \E c \in collections :
                            /\ c.name = _generate_collection_name(t.organization_name)
                            /\ c.by = o._id)

\* A store failure has stopped an Update between the rename and the patch:
\* the record has the old name and the collection the new one.
C22_Witness ==
    \E p \in Procs :
        /\ BetweenRenameAndPatch(p) /\ task[p].pc = "done" /\ task[p].status = 500
        /\ \E o \in organizations :
               /\ o._id = task[p].org._id
               /\ ~CollectionExists(o.collection_name)
               /\ CollectionExists(_generate_collection_name(task[p].organization_name))

\* The admin records of organization `id`.
AdminsOf(id, admins) == {a \in admins : a.organization_id = id}

\* What one step of the Delete of task p writes.
DeleteStepWrites(p) ==
    LET t == task[p] IN
    /\ collections' # collections
       => /\ t.pc = "d_drop_collection"
          /\ organizations' = organizations /\ admin_users' = admin_users
          /\ t.org._id \in IdsOf(organizations)
          /\ AdminsOf(t.org._id, admin_users) # {}
          /\ collections' = {c \in collections : c.name # t.org.collection_name}
    /\ admin_users' # admin_users
       => /\ t.pc = "d_delete_admins"
          /\ organizations' = organizations /\ collections' = collections
          /\ t.org._id \in IdsOf(organizations)
          /\ ~CollectionExists(t.org.collection_name)
          /\ admin_users' = admin_users \ AdminsOf(t.org._id, admin_users)
    /\ organizations' # organizations
       => /\ t.pc = "d_delete_org"
          /\ admin_users' = admin_users /\ collections' = collections
          /\ ~CollectionExists(t.org.collection_name)
          /\ AdminsOf(t.org._id, admin_users) = {}
          /\ organizations' = {o \in organizations : o._id # t.org._id}
    /\ (task'[p].pc = "done" /\ task'[p].status # 200)
       => /\ organizations' = organizations /\ admin_users' = admin_users
          /\ collections' = collections

\* C23: the steps of a Delete write in the order drop the tenant
\* collection, delete the admin records of the organization, delete the
\* organization record.  While an admin record of an organization exists
\* its organization record exists, so its name is taken for Create; and a
\* Delete that fails after the drop leaves the organization record in
\* place with the collection gone.
C23_DeleteOrder ==
    /\ [][\A p \in Procs :
             task[p].op = "delete" /\ task[p].pc # "done" /\ task'[p] # task[p]
             => DeleteStepWrites(p)]_vars
    /\ [](/\ \A a \in admin_users :
                 \E o \in organizations :
                     /\ o._id = a.organization_id
                     /\ find_org_by_name(o.name) # NoOrg
           /\ \A p \in Procs :
                 LET t == task[p] IN
                 (Done(p, "delete") /\ t.status # 200 /\ t.wrote)
                 => /\ t.org._id \in IdsOf(organizations)
                    /\ ~CollectionExists(t.org.collection_name))

\* A store failure has stopped a Delete after the drop, before the admin
\* records were deleted: the records are in place, the collection is gone.
C23_Witness ==
    \E p \in Procs :
        /\ Done(p, "delete") /\ task[p].status = 500 /\ task[p].wrote
        /\ task[p].org \in organizations
        /\ task[p].admin \in admin_users
        /\ ~CollectionExists(task[p].org.collection_name)

\* The store a request that started alone found holds organization `o`
\* with no tenant collection, and the admin of the request belongs to it.
DeletesWithoutCollection(p, o) ==
    LET t == task[p] IN
    /\ Done(p, "delete") /\ Alone(p)
    /\ t.admin_id # NoId /\ t.err # "store_failure"
    /\ o \in snap.organizations /\ o.name = Lower(t.org_name)
    /\ ~\E c \in snap.collections : c.name = o.collection_name
    /\ \E a \in snap.admin_users : a._id = t.admin_id /\ a.organization_id = o._id

\* C24: a Delete of an organization whose tenant collection does not exist
\* (and none of whose store calls fails) deletes the admin records and the
\* organization record and returns success.
C24_DeleteWithoutCollection ==
    \A p \in Procs :
        \A o \in (IF Alone(p) THEN snap.organizations ELSE {}) :
            DeletesWithoutCollection(p, o) =>
                /\ task[p].status = 200
                /\ o._id \notin IdsOf(organizations)
                /\ AdminsOf(o._id, admin_users) = {}
                /\ collections = snap.collections
                /\ organizations = snap.organizations \ {o}
                /\ admin_users = snap.admin_users \ AdminsOf(o._id, snap.admin_users)

\* A Delete has succeeded on an organization that had no tenant collection.
C24_Witness ==
    \E p \in Procs :
        \E o \in (IF Alone(p) THEN snap.organizations ELSE {}) :
            /\ DeletesWithoutCollection(p, o)
            /\ task[p].status = 200
            /\ o._id \notin IdsOf(organizations)

\* The Update of task p left its organization as it read it: the record,
\* the admin record and the tenant collection.
LeftAsRead(p) ==
    LET t == task[p] IN
    /\ t.org \in organizations
    /\ \A a \in admin_users : a._id = t.admin_id => a = t.admin
    /\ \E c \in collections : c.name = t.org.collection_name /\ c.by = t.org._id

\* C25: the rename of an Update fails exactly when the old collection is
\* missing or the new identifier is taken; the Update then ends with an
\* error, having written nothing to the registry.  Of two Updates of
\* different organizations to the same new name at most one succeeds, and
\* the organization record, admin record and collection of the one that
\* lost the name (its rename failed, or it found the name taken) are as it
\* read them.
C25_RenameFails ==
    /\ [][\A p \in Procs :
             LET t == task[p]
                 old_name == t.org.collection_name
                 new_name == _generate_collection_name(t.organization_name)
             IN
             t.pc = "u_rename" /\ task'[p] # t =>
                 /\ (~CollectionExists(old_name) \/ CollectionExists(new_name))
                    <=> /\ task'[p].pc = "done" /\ task'[p].status = 500
                        /\ task'[p].err = "rename_failed"
                 /\ task'[p].pc = "done"
                    => /\ ~t.wrote
                       /\ organizations' = organizations
                       /\ admin_users' = admin_users
                       /\ collections' = collections]_vars
    /\ [](\A p \in Procs : \A q \in Procs \ {p} :
             LET t == task[p]
                 u == task[q]
             IN
             (/\ Done(p, "update") /\ Done(q, "update")
              /\ t.org # NoOrg /\ u.org # NoOrg /\ t.org._id # u.org._id
              /\ AdminBelongs(t.admin, t.org) /\ AdminBelongs(u.admin, u.org)
              /\ t.organization_name = u.organization_name)
             => /\ ~(t.status = 200 /\ u.status = 200)
                /\ t.status # 200
                   => t.err \in {"rename_failed", "already_exists", "email_in_use"}
                /\ t.err \in {"rename_failed", "already_exists"} => LeftAsRead(p))
    /\ [](\A p \in Procs :
             (Done(p, "update") /\ Alone(p) /\ task[p].err = "rename_failed")
             => StoreAsAtStart)

\* Two Updates of different organizations went for the same new name: one
\* succeeded, the rename of the other failed on the identifier being taken.
C25_Witness ==
    \E p \in Procs : \E q \in Procs \ {p} :
        /\ Done(p, "update") /\ Done(q, "update")
        /\ task[p].org # NoOrg /\ task[q].org # NoOrg
        /\ task[p].org._id # task[q].org._id
        /\ task[p].organization_name = task[q].organization_name
        /\ task[p].status = 200
        /\ task[q].status = 500 /\ task[q].err = "rename_failed"
        /\ LeftAsRead(q)

\* No request is in flight.
AtRest == \A p \in Procs : ~InFlight(p)

\* C26 (as claimed): whenever no operation is in flight, the
\* organization_name of every admin record is the name of the organization
\* record it references, also after an Update that ended with the email
\* AlreadyExists error.
C26_AdminOrganizationName ==
    AtRest =>
        \A a \in admin_users : \A o \in organizations :
            o._id = a.organization_id => a.organization_name = o.name

\* C27 (as claimed): an Update (running alone) that returns NotFound,
\* Unauthorized or AlreadyExists, for a taken name or a taken email, leaves
\* the organization records, the admin records and the tenant collections
\* as they were before the call.
C27_DomainErrorChangesNothing ==
    \A p \in Procs :
        (/\ Done(p, "update") /\ Alone(p)
         /\ task[p].err \in {"not_found", "unauthorized", "already_exists",
                              "email_in_use"})
        => StoreAsAtStart

\* C28 (as claimed): in every reachable state, a tenant collection that an
\* organization record's collection_name names is the collection
\* provisioned by the Create of that organization, renamed or not.
C28_OwnCollection ==
    \A o \in organizations : \A c \in collections :
        c.name = o.collection_name => c.by = o._id

\* C29 (as claimed): whenever no operation is in flight, every organization
\* record's collection_name names an existing tenant collection and every
\* tenant collection is named by exactly one organization record.
C29_OneToOne ==
    AtRest =>
        /\ \A o \in organizations : CollectionExists(o.collection_name)
        /\ \A c \in collections :
               Cardinality({o \in organizations : o.collection_name = c.name}) = 1

\* C30 (as claimed): whenever no operation is in flight, the admin_email of
\* every organization record that has an admin_id is the email of that
\* admin record, also after two concurrent Updates of the organization by
\* its admin with different emails.
C30_AdminEmail ==
    AtRest =>
        \A o \in organizations : \A a \in admin_users :
            (o.admin_id # NoId /\ a._id = o.admin_id) => o.admin_email = a.email

\* C31: in every reachable state, the intermediate states of a Create or
\* Delete in flight or stopped by a failure included, the organization_id
\* of every admin record is the _id of an organization record.
C31_AdminHasOrganization ==
    \A a \in admin_users : a.organization_id \in IdsOf(organizations)

\* A Delete has removed the admin records of an organization whose Create
\* is still in flight, and has not removed the organization record yet.
C31_Witness ==
    \E p \in Procs : \E q \in Procs \ {p} :
        /\ task[p].op = "delete" /\ task[p].pc = "d_delete_org"
        /\ task[q].op = "create" /\ InFlight(q)
        /\ task[q].org_id = task[p].org._id
        /\ task[p].org._id \in IdsOf(organizations)
        /\ AdminsOf(task[p].org._id, admin_users) = {}

\* No admin record references organization record o.
Orphan(o) == AdminsOf(o._id, admin_users) = {}

\* The request of task p is past the point at which it can be refused for
\* o: a Create that inserted o, or an Update or Delete that has passed the
\* authorization check with o as its target.
Committed(p, o) ==
    LET t == task[p] IN
    /\ InFlight(p)
    /\ \/ t.op = "create" /\ t.org_id = o._id
       \/ /\ t.op \in {"update", "delete"}
          /\ t.org # NoOrg /\ t.org._id = o._id
          /\ t.pc \notin {"u_find_admin", "d_find_admin"}

\* o has no admin and no request is committed to it.
Stranded(o) == Orphan(o) /\ \A p \in Procs : ~Committed(p, o)

\* Update and Delete requests racing each other, any of whose store calls
\* may fail.
NextStrand == NextRename \/ \E p \in Procs : StoreFault(p)

SpecStrand == InitRename /\ [][NextStrand]_vars

\* The request of task p has ended in a failure that left o behind: a
\* Create that inserted o, or a Delete of o that was authorized.
LeftBehind(p, o) ==
    LET t == task[p] IN
    /\ t.pc = "done" /\ t.status = 500
    /\ \/ t.op = "create" /\ t.org_id = o._id
       \/ t.op = "delete" /\ t.org # NoOrg /\ t.org._id = o._id

LiveAdminOf(admin_id, id) ==
    \E a \in admin_users : a._id = admin_id /\ a.organization_id = id

\* C33: the authorization step of an Update or Delete of an organization
\* that was found lets the request go on exactly when the admin record
\* stored under the principal's admin_id references the target's id, and
\* refuses it with 403 otherwise; the token's organization_id and
\* organization_name claims do not enter.
C33_LiveAdminDecides ==
    [][\A p \in Procs :
           LET t == task[p] IN
           (t.pc \in {"u_find_admin", "d_find_admin"} /\ task'[p] # t) =>
               IF LiveAdminOf(t.admin_id, t.org._id)
               THEN /\ task'[p].pc \notin {"done", "idle"}
                    /\ task'[p].err = "none"
               ELSE /\ task'[p].pc = "done"
                    /\ task'[p].err = "unauthorized"
                    /\ task'[p].status = 403]_vars

\* An Update has passed the authorization step with a token whose
\* organization_name claim is no longer the name of its organization.
C33_Witness ==
    \E p \in Procs :
        LET t == task[p] IN
        /\ t.op = "update" /\ InFlight(p)
        /\ t.pc \notin {"auth", "u_find_org", "u_find_admin"}
        /\ AdminBelongs(t.admin, t.org)
        /\ t.principal.organization_id = t.org._id
        /\ t.principal.organization_name # t.org.name

\* C34: the principal that a request of /admin/me or /admin/verify-token
\* is answered with carries the email of the admin record as it is stored
\* at the time of the request, and the name of that admin's organization
\* as it is stored at that time.
C34_PrincipalIsCurrent ==
    \A p \in Procs :
        LET t == task[p] IN
        (t.pc = "done" /\ t.op \in {"me", "verify"} /\ t.status = 200) =>
            \A a \in admin_users :
                a._id = t.principal.admin_id =>
                    /\ t.principal.email = a.email
                    /\ \A o \in organizations :
                           o._id = a.organization_id
                               => t.principal.organization_name = o.name

\* C35: every admin record carries one organization id; no step changes
\* the organization_id of an admin record that stays in the store; and no
\* two admin records carry the same organization id.
C35_OneOrganizationPerAdmin ==
    /\ [](\A a \in admin_users :
             /\ a.organization_id # NoId
             /\ \A b \in admin_users :
                    b.organization_id = a.organization_id => b = a)
    /\ [][\A a \in admin_users : \A b \in admin_users' :
             b._id = a._id => b.organization_id = a.organization_id]_vars

\* A Create has inserted the admin of its organization next to an admin
\* record that an Update has patched.
C35_Witness ==
    \E p \in Procs : \E q \in Procs \ {p} :
        /\ task[p].op = "create" /\ task[p].new_admin_id # NoId
        /\ \E a \in admin_users :
               a._id = task[p].new_admin_id /\ a.organization_id = task[p].org_id
        /\ task[q].op = "update" /\ task[q].pc \in {"u_patch_email", "u_refetch", "done"}
        /\ task[q].wrote /\ task[q].email # NoStr
        /\ \E a \in admin_users :
               /\ a._id = task[q].admin_id /\ a.email = task[q].email
               /\ a.organization_id = task[q].org._id

\* Login with the pair (email, password) would succeed on the store as it is.
LogsIn(email, password) ==
    LoginConditions(email, password, admin_users, organizations)

\* C36: with the requests running one after the other, after a successful
\* Create login succeeds with the email and password of its body and with
\* no other password; after a successful Update the admin's email is the
\* new_email if one was given and the email it had otherwise, its password
\* is the new_password if one was given and the one it had otherwise, login
\* succeeds with exactly that pair, and a replaced email or password no
\* longer logs in; and a Login succeeds exactly when its pair logs in.
C36_LatestCredentials ==
    \A p \in Procs :
        LET t == task[p] IN
        /\ (Done(p, "create") /\ t.status = 201) =>
               \A pw \in Passwords : LogsIn(t.email, pw) <=> pw = t.password
        /\ (Done(p, "update") /\ t.status = 200) =>
               LET email == IF t.email # NoStr THEN t.email ELSE t.admin.email
               IN /\ \A pw \in Passwords :
                         LogsIn(email, pw) <=>
                             IF t.password # NoStr THEN pw = t.password
                             ELSE verify_password(pw, t.admin.password_hash)
                  /\ t.admin.email # email =>
                         \A pw \in Passwords : ~LogsIn(t.admin.email, pw)
        /\ Done(p, "login") => (t.status = 200 <=> LogsIn(t.email, t.password))

\* A Login with the password the admin was created with got 401 after an
\* Update had set another password.
C36_Witness ==
    \E p \in Procs :
        /\ Done(p, "login") /\ task[p].status = 401
        /\ task[p].password \in CreatePasswords
        /\ \E a \in admin_users : \E pw \in UpdatePasswords :
               a.email = task[p].email /\ verify_password(pw, a.password_hash)

(***************************************************************************)
(* Two Updates racing each other, and one more Update after both have      *)
(* returned.                                                               *)
(***************************************************************************)
InitAfterRace ==
    /\ \E seed \in Seeds : InitDocs(seed)
    /\ gone = {}
    /\ now = 0
    /\ jwt = NoJwt
    /\ budget = 1
    /\ snap = NoSnap
    /\ \E first \in RenameUpdates, second \in RenameUpdates :
           /\ first.email = NoStr /\ second.email = NoStr
           /\ task = [p \in Procs |-> IF p = "t1" THEN first ELSE second]

NextAfterRace ==
    \/ \E p \in Procs :
           \/ Authenticate(p)
           \/ UpdateFindOrg(p)
           \/ UpdateFindAdmin(p)
           \/ UpdateFindExisting(p)
           \/ UpdateRename(p)
           \/ UpdatePatchOrg(p)
           \/ UpdateFindEmail(p)
           \/ UpdatePatchAdmin(p)
           \/ UpdatePatchEmail(p)
           \/ UpdateRefetch(p)
    \/ (\A q \in Procs : task[q].pc = "done") /\ Deliver("t2")
    \/ ~InFlight("t2") /\ Deliver("t1")
    \/ AtRest /\ StartUpdateWith("t1", BodyNames, Emails \cup {NoStr}, {NoStr})

SpecAfterRace == InitAfterRace /\ [][NextAfterRace]_vars

\* The request of task t is an Update that found its organization and whose
\* new name is, letter case apart, the name the organization has.
SameName(t) ==
    /\ t.op = "update" /\ t.org # NoOrg
    /\ Lower(t.organization_name) = Lower(t.org.name)

\* C37 (as claimed): an Update whose new name is the current name makes no
\* name-uniqueness check and no collection rename and does not fail with
\* AlreadyExists for the name; when it has run alone, the collections are
\* as it found them, its organization record differs from the one it found
\* in updated_at and admin_email at most, and its admin record in the email
\* and password hash at most, each only if the request supplied it.
C37_SameNameUpdate ==
    \A p \in Procs :
        LET t == task[p] IN
        SameName(t) =>
            /\ t.pc \notin {"u_find_existing", "u_rename"}
            /\ t.err \notin {"already_exists", "rename_failed"}
            /\ (Alone(p) /\ t.pc = "done") =>
                   /\ collections = snap.collections
                   /\ \A o \in snap.organizations :
                          o._id = t.org._id =>
                              \E n \in organizations :
                                  /\ [n EXCEPT !.updated_at = o.updated_at,
                                               !.admin_email = o.admin_email] = o
                                  /\ n.admin_email # o.admin_email => n.admin_email = t.email
                   /\ \A a \in snap.admin_users :
                          a._id = t.admin_id =>
                              \E b \in admin_users :
                                  /\ [b EXCEPT !.email = a.email,
                                               !.password_hash = a.password_hash] = a
                                  /\ b.email # a.email => b.email = t.email
                                  /\ b.password_hash # a.password_hash => t.password # NoStr

\* The ids of the organization the request of task t concerns: the one it
\* found by name, and the one it inserted.
Concerns(t) == {t.org._id, t.org_id}

\* The collection named name is in both sets of collections, the same, or
\* in neither.
SameCollection(name, before, after) ==
    {c \in before : c.name = name} = {c \in after : c.name = name}

\* C38: when a Create, Update or Delete has run alone and returned, with
\* success or with an error, every organization record that is not the one
\* the request concerns is as it was when the request started, and so are
\* the admin records that reference it and the collection it names.
C38_OthersUntouched ==
    \A p \in Procs :
        LET t == task[p] IN
        (Alone(p) /\ t.pc = "done" /\ t.op \in {"create", "update", "delete"}) =>
            /\ \A o \in snap.organizations :
                   o._id \notin Concerns(t) =>
                       /\ o \in organizations
                       /\ SameCollection(o.collection_name, snap.collections, collections)
                       /\ AdminsOf(o._id, admin_users) = AdminsOf(o._id, snap.admin_users)
            /\ \A o \in organizations :
                   o._id \notin Concerns(t) => o \in snap.organizations

\* A Delete that ran alone removed one of two organizations and a store
\* call of it failed or it returned success; the other is as it was.
C38_Witness ==
    \E p \in Procs :
        LET t == task[p] IN
        /\ Alone(p) /\ t.pc = "done" /\ t.op = "delete" /\ t.wrote
        /\ AdminsOf(t.org._id, admin_users) = {}
        /\ \E o \in organizations :
               /\ o._id # t.org._id
               /\ AdminsOf(o._id, admin_users) # {}
               /\ \E c \in collections : c.name = o.collection_name

(***************************************************************************)
(* Two requests, each a Create, Update, Delete or Login, running side by   *)
(* side from their first store call to their response; any store call may  *)
(* fail.  The event loop resumes every request whose store call has        *)
(* returned: each request that can take a step eventually takes one.       *)
(***************************************************************************)
LiveRequests ==
    {[Idle EXCEPT !.op = "create", !.pc = "c_find_org",
                  !.organization_name = validate_organization_name(raw),
                  !.email = e, !.password = pw]
       : raw \in BodyNames, e \in Emails, pw \in CreatePasswords}
    \cup {u \in RenameUpdates : u.email # "c@x.com"}
    \cup RenameDeletes
    \cup {[Idle EXCEPT !.op = "login", !.pc = "l_find_admin",
                        !.email = e, !.password = pw]
             : e \in Emails, pw \in CreatePasswords}

InitLive ==
    /\ \E seed \in Seeds : InitDocs(seed)
    /\ gone = {}
    /\ now = 0
    /\ jwt = NoJwt
    /\ budget = 0
    /\ snap = NoSnap
    /\ \E first \in LiveRequests, second \in LiveRequests :
           task = [p \in Procs |-> IF p = "t1" THEN first ELSE second]

\* The next store call of the request of task p returns.
Resume(p) ==
    \/ Authenticate(p)
    \/ CreateFindOrg(p)
    \/ CreateFindAdmin(p)
    \/ CreateInsertOrg(p)
    \/ CreateInsertAdmin(p)
    \/ CreatePatchOrg(p)
    \/ CreateCollection(p)
    \/ CreateInsertMarker(p)
    \/ CreateIndexes(p)
    \/ UpdateFindOrg(p)
    \/ UpdateFindAdmin(p)
    \/ UpdateFindExisting(p)
    \/ UpdateRename(p)
    \/ UpdatePatchOrg(p)
    \/ UpdateFindEmail(p)
    \/ UpdatePatchAdmin(p)
    \/ UpdatePatchEmail(p)
    \/ UpdateRefetch(p)
    \/ DeleteFindOrg(p)
    \/ DeleteFindAdmin(p)
    \/ DeleteDropCollection(p)
    \/ DeleteAdmins(p)
    \/ DeleteOrg(p)
    \/ LoginAuthenticate(p)
    \/ LoginIssue(p)

NextLive == \E p \in Procs : Resume(p) \/ StoreFault(p)

SpecLive ==
    InitLive /\ [][NextLive]_vars /\ \A p \in Procs : WF_vars(Resume(p))

\* C39: every request that has started and not yet returned eventually
\* returns a response, whatever the other request does.
C39_Returns ==
    \A p \in Procs : InFlight(p) ~> (task[p].pc = "done" /\ task[p].status # 0)

\* Both requests have returned, one of them an Update that lost its rename
\* to the other or whose store call failed, the other with success.
C39_Witness ==
    \E p \in Procs : \E q \in Procs \ {p} :
        /\ task[p].pc = "done" /\ task[p].op = "update" /\ task[p].status = 500
        /\ task[q].pc = "done" /\ task[q].status \in {200, 201}

====
